---------------------------- MODULE Spec2Model ----------------------------
(***************************************************************************)
(* A model of the record engine of src/src/recordmodule.c: the type        *)
(* catalog and its cast tables, the format parser, the Item and Dimen      *)
(* arrays, the Record object's sequence and mapping protocols, and the     *)
(* compare/cast/get/set recursions.                                        *)
(*                                                                         *)
(* C arrays are functions from 0..n; a char buffer is a sequence of bytes  *)
(* (byte k of the C buffer is element k+1); a C string is a sequence of    *)
(* one-character strings.  Pointers to Dimen and Item arrays are ids into  *)
(* the heaps dimens and items, so that sharing of a structure between two  *)
(* Record objects is visible.                                              *)
(***************************************************************************)
EXTENDS Integers, Sequences, FiniteSets, TLC

VARIABLES
  hostLittle,  \* the build's byte order: ((char *)&one)[0] == 1
  longBits,    \* the build's width of C long, which PyInt_FromLong takes
  dimens,      \* the heap of Dimen arrays: id -> array
  items,       \* the heap of Item arrays: id -> array
  buffers,     \* the data buffers (Python string objects): id -> bytes
  views,       \* the live Record objects: [endn, dimn, item, pntr, data]
  refs,        \* the reference counts of the data buffers: id -> [cnt, ext]
  res          \* what the last operation was given and what it returned

vars == <<hostLittle, longBits, dimens, items, buffers, views, refs, res>>

(***************************************************************************)
(* enum Item_Types (recordmodule.h)                                        *)
(***************************************************************************)
Item_STRING == 0
Item_CHAR8 == 1
Item_UINT8 == 2
Item_SINT8 == 3
Item_UINT16 == 4
Item_SINT16 == 5
Item_UINT32 == 6
Item_SINT32 == 7
Item_FLOAT32 == 8
Item_FLOAT64 == 9
Item_COMPLEX32 == 10
Item_COMPLEX64 == 11
Item_NTYPES == 12

Types == 0 .. (Item_NTYPES - 1)

(* enum Endians *)
NAT == "="
LIL == "<"
BIG == ">"
NET == "!"
Endians == {NAT, LIL, BIG, NET}

(***************************************************************************)
(* The cast tables, one per destination type, indexed by the source type   *)
(* (element t+1 is slot t).  TRUE is a function pointer, FALSE is 0.       *)
(***************************************************************************)
String_cast ==
  <<TRUE, TRUE, FALSE, FALSE, FALSE, FALSE, FALSE, FALSE, FALSE, FALSE, FALSE, FALSE>>
Char8_cast ==
  <<TRUE, TRUE, FALSE, FALSE, FALSE, FALSE, FALSE, FALSE, FALSE, FALSE, FALSE, FALSE>>
sInt8_cast ==
  <<FALSE, FALSE, TRUE, TRUE, FALSE, FALSE, FALSE, FALSE, FALSE, FALSE, FALSE, FALSE>>
uInt8_cast ==
  <<FALSE, FALSE, TRUE, TRUE, FALSE, FALSE, FALSE, FALSE, FALSE, FALSE, FALSE, FALSE>>
sInt16_cast ==
  <<FALSE, FALSE, TRUE, TRUE, TRUE, TRUE, FALSE, FALSE, FALSE, FALSE, FALSE, FALSE>>
uInt16_cast ==
  <<FALSE, FALSE, TRUE, TRUE, TRUE, TRUE, FALSE, FALSE, FALSE, FALSE, FALSE, FALSE>>
sInt32_cast ==
  <<FALSE, FALSE, TRUE, TRUE, TRUE, TRUE, TRUE, TRUE, FALSE, FALSE, FALSE, FALSE>>
uInt32_cast ==
  <<FALSE, FALSE, TRUE, TRUE, TRUE, TRUE, TRUE, TRUE, FALSE, FALSE, FALSE, FALSE>>
Float32_cast ==
  <<FALSE, FALSE, TRUE, TRUE, TRUE, TRUE, TRUE, TRUE, TRUE, TRUE, FALSE, FALSE>>
Float64_cast ==
  <<FALSE, FALSE, TRUE, TRUE, TRUE, TRUE, TRUE, TRUE, TRUE, TRUE, FALSE, FALSE>>
Complex32_cast ==
  <<FALSE, FALSE, TRUE, TRUE, TRUE, TRUE, TRUE, TRUE, TRUE, TRUE, TRUE, TRUE>>
Complex64_cast ==
  <<FALSE, FALSE, TRUE, TRUE, TRUE, TRUE, TRUE, TRUE, TRUE, TRUE, TRUE, TRUE>>

(***************************************************************************)
(* The Item_Descr of each type: its repr, its size and its cast table.     *)
(* The get and set pointers of a descriptor are those of its type, and an  *)
(* Item copies all three pointers from the descriptor of its type, so an   *)
(* Item's functions are looked up here by its type.                        *)
(***************************************************************************)
String_descr == [type |-> Item_STRING, repr |-> <<"s">>, size |-> 1, cast |-> String_cast]
Char8_descr == [type |-> Item_CHAR8, repr |-> <<"c", "8">>, size |-> 1, cast |-> Char8_cast]
uInt8_descr == [type |-> Item_UINT8, repr |-> <<"I", "8">>, size |-> 1, cast |-> uInt8_cast]
sInt8_descr == [type |-> Item_SINT8, repr |-> <<"i", "8">>, size |-> 1, cast |-> sInt8_cast]
uInt16_descr == [type |-> Item_UINT16, repr |-> <<"I", "1", "6">>, size |-> 2, cast |-> uInt16_cast]
sInt16_descr == [type |-> Item_SINT16, repr |-> <<"i", "1", "6">>, size |-> 2, cast |-> sInt16_cast]
uInt32_descr == [type |-> Item_UINT32, repr |-> <<"I", "3", "2">>, size |-> 4, cast |-> uInt32_cast]
sInt32_descr == [type |-> Item_SINT32, repr |-> <<"i", "3", "2">>, size |-> 4, cast |-> sInt32_cast]
Float32_descr == [type |-> Item_FLOAT32, repr |-> <<"f", "3", "2">>, size |-> 4, cast |-> Float32_cast]
Float64_descr == [type |-> Item_FLOAT64, repr |-> <<"f", "6", "4">>, size |-> 8, cast |-> Float64_cast]
Complex32_descr == [type |-> Item_COMPLEX32, repr |-> <<"F", "3", "2">>, size |-> 8, cast |-> Complex32_cast]
Complex64_descr == [type |-> Item_COMPLEX64, repr |-> <<"F", "6", "4">>, size |-> 16, cast |-> Complex64_cast]

descr_table ==
  <<String_descr, Char8_descr, uInt8_descr, sInt8_descr, uInt16_descr, sInt16_descr,
    uInt32_descr, sInt32_descr, Float32_descr, Float64_descr, Complex32_descr,
    Complex64_descr>>

(* descr_table[t] and the slot descr_table[dst]->cast[src] *)
Descr(t) == descr_table[t + 1]

(* a table in which a type casts from itself alone *)
SameType(dst, src) == dst = src

CastEntry(dst, src) == Descr(dst).cast[src + 1]


(***************************************************************************)
(*                 TYPE ACCESS AND CONVERSION FUNCTIONS                    *)
(*                                                                         *)
(* Every numeric function loads the item's bytes into a union, reversed    *)
(* when the item's swap flag is set, converts with a C assignment, and     *)
(* stores the union's bytes, reversed when the destination's swap flag is  *)
(* set.  A union's bytes are in the build's byte order.  An integer value  *)
(* is kept as its two's complement bytes, least significant first, so a    *)
(* 32-bit unsigned value needs no number above 255; a Python int is such   *)
(* a value sign-extended to LongLong bytes.                                *)
(***************************************************************************)
LongLong == 8
SPACE == 32

Reverse(s) == [k \in 1 .. Len(s) |-> s[Len(s) + 1 - k]]

IsInteger(t) == t \in {Item_UINT8, Item_SINT8, Item_UINT16, Item_SINT16, Item_UINT32, Item_SINT32}
IsSigned(t) == t \in {Item_SINT8, Item_SINT16, Item_SINT32}
IsFloat(t) == t \in {Item_FLOAT32, Item_FLOAT64}
IsComplex(t) == t \in {Item_COMPLEX32, Item_COMPLEX64}

(* for (k=0; k<s; k++) t.s[k] = swap? p[s-k-1]: p[k];  with p = buf + off *)
UnionLoad(buf, off, s, swap) ==
  [k \in 1 .. s |-> IF swap THEN buf[off + s - k + 1] ELSE buf[off + k]]

(* for (k=0; k<s; k++) p[k] = swap? t.s[s-k-1]: t.s[k]; *)
UnionStore(buf, off, ts, swap) ==
  [n \in 1 .. Len(buf) |->
     IF n > off /\ n <= off + Len(ts)
       THEN (IF swap THEN ts[Len(ts) - (n - off) + 1] ELSE ts[n - off])
       ELSE buf[n]]

(* a union's bytes <-> the value's bytes, least significant first *)
ToLSB(ts) == IF hostLittle THEN ts ELSE Reverse(ts)
FromLSB(ls) == IF hostLittle THEN ls ELSE Reverse(ls)

(* sign or zero extension to n bytes, and truncation to n bytes *)
Extend(ls, signed, n) ==
  [k \in 1 .. n |->
     IF k <= Len(ls) THEN ls[k]
     ELSE IF signed /\ Len(ls) > 0 /\ ls[Len(ls)] >= 128 THEN 255 ELSE 0]
Trunc(ls, n) == [k \in 1 .. n |-> ls[k]]

(* t1.v = t2.v between two integer types: C's integer conversion, which   *)
(* keeps the value when the destination can hold it and wraps otherwise    *)
IntConv(ls, signed2, s1) == Trunc(Extend(ls, signed2, LongLong), s1)

(* PyInt_FromLong(t.v): t.v converted to long, as a Python int *)
PyInt_FromLong(ls, signed) ==
  [k |-> "int",
   v |-> Extend(Trunc(Extend(ls, signed, LongLong), longBits \div 8), TRUE, LongLong)]

(* The bytes, least significant first, of a small integer n. *)
RECURSIVE LSB(_, _)
LSB(n, k) == IF k = 0 THEN << >> ELSE <<n % 256>> \o LSB(n \div 256, k - 1)
PyInt(n) == [k |-> "int", v |-> LSB(n, LongLong)]
PyString(bytes) == [k |-> "str", s |-> bytes]
PyFloat(bits) == [k |-> "float", bits |-> bits]
PyComplex(re, im) == [k |-> "complex", re |-> re, im |-> im]
(* the sequences of 1 to n elements of S *)
SeqsOf(S, n) == UNION {[1 .. m -> S] : m \in 1 .. n}
PyTuple(elems) == [k |-> "tuple", elems |-> elems]
PyList(elems) == [k |-> "list", elems |-> elems]

(***************************************************************************)
(* t1.v = t2.v for a destination type dst and a source type src, on the    *)
(* union's bytes.  Between integer types it is C's integer conversion; a   *)
(* float or complex component assigned to one of its own width keeps its   *)
(* bits.  The conversions that compute a new IEEE pattern (an integer      *)
(* into a float, a float into one of the other width) are not evaluated    *)
(* by any specification below, and have no case here.                      *)
(***************************************************************************)
CompSize(t) == IF IsComplex(t) THEN Descr(t).size \div 2 ELSE Descr(t).size

Modelled(dst, src) ==
  \/ dst \in {Item_STRING, Item_CHAR8} /\ src \in {Item_STRING, Item_CHAR8}
  \/ IsInteger(dst) /\ IsInteger(src)
  \/ (IsFloat(dst) \/ IsComplex(dst)) /\ (IsFloat(src) \/ IsComplex(src))
       /\ CompSize(dst) = CompSize(src)

Assign(dst, src, t2) ==
  CASE IsInteger(dst) /\ IsInteger(src) ->
         FromLSB(IntConv(ToLSB(t2), IsSigned(src), Descr(dst).size))
    [] CompSize(dst) = CompSize(src) /\ ~IsInteger(dst) /\ ~IsInteger(src) -> t2

(* a store that never reverses the union's bytes *)
StoredUnswapped(t1, swap) == t1

(* the bytes a store of the union t1 leaves at p1, in buffer order *)
Stored(t1, swap) == IF swap THEN Reverse(t1) ELSE t1

Zeros(n) == [k \in 1 .. n |-> 0]
Spaces(n) == [k \in 1 .. n |-> SPACE]

(***************************************************************************)
(* X_from_Y(i1, p1, i2, p2): the bytes the cast function of the pair       *)
(* (i1.type, i2.type) writes at p1 + i1->leng, read from buffer b2 at      *)
(* p2 + i2->leng.  p2 is a byte offset into b2.                            *)
(***************************************************************************)
String_from_String(i1, i2, b2, p2) ==
  [k \in 1 .. i1.size |-> IF k <= i2.size THEN b2[p2 + i2.leng + k] ELSE SPACE]

String_from_Char8(i1, i2, b2, p2) ==
  <<b2[p2 + i2.leng + 1]>> \o Spaces(IF i1.size > 1 THEN i1.size - 1 ELSE 0)

Char8_from_any(i1, i2, b2, p2) == <<b2[p2 + i2.leng + 1]>>

Numeric_from_Numeric(i1, i2, b2, p2) ==
  LET s1 == CompSize(i1.type)
      s2 == CompSize(i2.type)
      t2r == UnionLoad(b2, p2 + i2.leng, s2, i2.swap = 1)
      t1r == Assign(i1.type, i2.type, t2r)
  IN  IF ~IsComplex(i1.type) THEN Stored(t1r, i1.swap = 1)
      ELSE IF IsComplex(i2.type)
        THEN Stored(t1r, i1.swap = 1)
               \o Stored(Assign(i1.type, i2.type,
                                UnionLoad(b2, p2 + i2.leng + s2, s2, i2.swap = 1)),
                         i1.swap = 1)
        ELSE Stored(t1r, i1.swap = 1) \o Zeros(s1)

CastBytes(i1, i2, b2, p2) ==
  CASE i1.type = Item_STRING /\ i2.type = Item_STRING -> String_from_String(i1, i2, b2, p2)
    [] i1.type = Item_STRING /\ i2.type = Item_CHAR8 -> String_from_Char8(i1, i2, b2, p2)
    [] i1.type = Item_CHAR8 -> Char8_from_any(i1, i2, b2, p2)
    [] OTHER -> Numeric_from_Numeric(i1, i2, b2, p2)

(* how many bytes the cast function reads at p2 + i2->leng *)
CastReads(i1, i2) ==
  CASE i1.type = Item_STRING /\ i2.type = Item_STRING ->
         (IF i1.size < i2.size THEN i1.size ELSE i2.size)
    [] i1.type \in {Item_STRING, Item_CHAR8} -> 1
    [] OTHER -> Descr(i2.type).size

(* writing the sequence bytes into buf at byte offset off *)
Poke(buf, off, bytes) ==
  [n \in 1 .. Len(buf) |->
     IF n > off /\ n <= off + Len(bytes) THEN bytes[n - off] ELSE buf[n]]

Peek(buf, off, n) == [k \in 1 .. n |-> buf[off + k]]

(***************************************************************************)
(* X_get(i1, p1): the Python object read at p1 + i1->leng.                 *)
(* A float is kept as the bytes of its C value, least significant first.   *)
(***************************************************************************)
ItemGet(i1, b1, p1) ==
  CASE i1.type \in {Item_STRING, Item_CHAR8} -> PyString(Peek(b1, p1 + i1.leng, i1.size))
    [] IsInteger(i1.type) ->
         PyInt_FromLong(ToLSB(UnionLoad(b1, p1 + i1.leng, Descr(i1.type).size, i1.swap = 1)),
                        IsSigned(i1.type))
    [] IsFloat(i1.type) ->
         PyFloat(ToLSB(UnionLoad(b1, p1 + i1.leng, Descr(i1.type).size, i1.swap = 1)))
    [] IsComplex(i1.type) ->
         PyComplex(ToLSB(UnionLoad(b1, p1 + i1.leng, CompSize(i1.type), i1.swap = 1)),
                   ToLSB(UnionLoad(b1, p1 + i1.leng + CompSize(i1.type), CompSize(i1.type),
                                   i1.swap = 1)))

(***************************************************************************)
(*                        FORMAT STRING FUNCTIONS                          *)
(*                                                                         *)
(* A char * into the format string fmt is an index i; the character at     *)
(* and past the end of the sequence is the terminating NUL.                *)
(***************************************************************************)
NUL == "\\0"
At(fmt, i) == IF i >= 1 /\ i <= Len(fmt) THEN fmt[i] ELSE NUL

Digits == <<"0", "1", "2", "3", "4", "5", "6", "7", "8", "9">>
IsDigit(c) == \E d \in 1 .. 10 : Digits[d] = c
DigitVal(c) == (CHOOSE d \in 1 .. 10 : Digits[d] = c) - 1

RECURSIVE skip_space(_, _)
skip_space(fmt, i) == IF At(fmt, i) = " " THEN skip_space(fmt, i + 1) ELSE i

(* Return 1 when the endianness of the data type and machine type differ. *)
format_swap(endian) ==
  IF endian = LIL THEN (IF hostLittle THEN 0 ELSE 1)
  ELSE IF endian = BIG \/ endian = NET THEN (IF hostLittle THEN 1 ELSE 0)
  ELSE 0

(* the endian code if present, or native; and the advanced pointer *)
format_endian(fmt, i) ==
  IF At(fmt, i) \in {LIL, BIG, NET, NAT}
    THEN [endian |-> At(fmt, i), pos |-> i + 1]
    ELSE [endian |-> NAT, pos |-> i]

RECURSIVE type_check(_, _, _, _)
type_check(fmt, i, dsc, j) ==
  /\ At(fmt, i) = At(dsc, j)
  /\ \/ At(fmt, i + 1) \in {" ", ",", NUL}
     \/ type_check(fmt, i + 1, dsc, j + 1)

(* the type the loop  for (i=Item_NTYPES-1; i>=0; i--)  stops at, or -1 *)
RECURSIVE MatchType(_, _, _)
MatchType(fmt, i, t) ==
  IF t < 0 THEN -1
  ELSE IF \/ type_check(fmt, i, Descr(t).repr, 1)
          \/ (At(fmt, i) = Descr(t).repr[1] /\ t <= Item_STRING)
    THEN t
    ELSE MatchType(fmt, i, t - 1)

(* while (('0' <= (c=*++fmt)) && (c <= '9')) cnt = 10*cnt + (c-'0'); *)
RECURSIVE ScanCount(_, _, _)
ScanCount(fmt, i, cnt) ==
  IF IsDigit(At(fmt, i + 1))
    THEN ScanCount(fmt, i + 1, 10 * cnt + DigitVal(At(fmt, i + 1)))
    ELSE [pos |-> i + 1, cnt |-> cnt]

format_type_and_size(fmt, i) ==
  LET type == MatchType(fmt, i, Item_NTYPES - 1)
      sc == ScanCount(fmt, i, 0)
  IN  IF type < 0 THEN [ok |-> FALSE, pos |-> i, type |-> 0, size |-> 0]
      ELSE [ok |-> TRUE, pos |-> sc.pos, type |-> type,
            size |-> IF type = Item_STRING THEN sc.cnt ELSE Descr(type).size]

RECURSIVE Format_Next(_, _)
Format_Next(fmt, i) ==
  IF At(fmt, i) # "," /\ At(fmt, i) # NUL THEN Format_Next(fmt, i + 1)
  ELSE IF At(fmt, i) = "," THEN i + 1 ELSE i

RECURSIVE Format_StringLength(_, _)
Format_StringLength(fmt, i) ==
  IF At(fmt, i) = NUL THEN 0 ELSE 1 + Format_StringLength(fmt, Format_Next(fmt, i))

(***************************************************************************)
(*                              Item arrays                                *)
(*                                                                         *)
(* An Item array is a function on 0..n: element 0 holds the number of      *)
(* items (leng) and the record size (size), element j >= 1 holds item j's  *)
(* byte offset in the record (leng), type, size and swap flag.  malloc     *)
(* leaves the type and swap of element 0 unset; nothing reads them, and    *)
(* they are 0 here.                                                        *)
(***************************************************************************)
ItemHead(n, size) == [leng |-> n, type |-> 0, size |-> size, swap |-> 0]

(* the loop of item_FromFormat from item j at fmt+i on, new being the      *)
(* array so far; the result is the array, or ok = FALSE (a bad type) and   *)
(* the text of the exception                                               *)
RECURSIVE FromFormatLoop(_, _, _, _, _)
FromFormatLoop(endian, fmt, i, j, new) ==
  IF At(fmt, i) = NUL THEN [ok |-> TRUE, err |-> "", item |-> new]
  ELSE LET ts == format_type_and_size(fmt, skip_space(fmt, i))
       IN  IF ~ts.ok THEN [ok |-> FALSE, err |-> "bad format type", item |-> new]
           ELSE FromFormatLoop(endian, fmt, Format_Next(fmt, ts.pos), j + 1,
                  [x \in DOMAIN new \cup {j} |->
                     IF x = j THEN [leng |-> new[0].size, type |-> ts.type,
                                    size |-> ts.size, swap |-> format_swap(endian)]
                     ELSE IF x = 0 THEN ItemHead(new[0].leng, new[0].size + ts.size)
                     ELSE new[x]])

(* no exception is set when the format string holds no item *)
item_FromFormat(endian, fmt, i) ==
  LET n_item == Format_StringLength(fmt, i)
  IN  IF n_item = 0 THEN [ok |-> FALSE, err |-> "", item |-> (0 :> ItemHead(0, 0))]
      ELSE FromFormatLoop(endian, fmt, i, 1, (0 :> ItemHead(n_item, 0)))

(* a copy of an Item array, its swap flags set for endian *)
RECURSIVE FromItemLoop(_, _, _, _)
FromItemLoop(i1, endian, j, new) ==
  IF j > i1[0].leng THEN new
  ELSE FromItemLoop(i1, endian, j + 1,
         [x \in DOMAIN new \cup {j} |->
            IF x = j THEN [leng |-> new[0].size, type |-> i1[j].type,
                           size |-> i1[j].size, swap |-> format_swap(endian)]
            ELSE IF x = 0 THEN ItemHead(new[0].leng, new[0].size + i1[j].size)
            ELSE new[x]])

item_FromItem(i1, endian) == FromItemLoop(i1, endian, 1, (0 :> ItemHead(i1[0].leng, 0)))

(***************************************************************************)
(*                             Dimen arrays                                *)
(*                                                                         *)
(* A Dimen array is a function on 0..n.  Element 0 describes the array:    *)
(* leng is the number of dimensions n, size the byte size of the data,     *)
(* stop the dimension that sequence operations and len() act on, flag 0    *)
(* once no dimension is valid.  Element 1 is the item dimension, elements  *)
(* 2..n the repetition dimensions, innermost first.                        *)
(***************************************************************************)
Py_None == [k |-> "none"]
PySlice(lo, hi, st) == [k |-> "slice", start |-> lo, stop |-> hi, step |-> st]

(* PyInt_AsLong of a Python int that fits 16 bits (every key, index and    *)
(* shape component drawn below does)                                       *)
AsInt(ob) ==
  LET lo == ob.v[1] + 256 * ob.v[2]
  IN  IF ob.v[2] >= 128 THEN lo - 65536 ELSE lo

(* for (j=start; step < 0? j > stop: j < stop; j+=step) leng++; *)
RECURSIVE LoopCount(_, _, _)
LoopCount(j, stop, step) ==
  IF (IF step < 0 THEN j > stop ELSE j < stop)
    THEN 1 + LoopCount(j + step, stop, step)
    ELSE 0

dimen_length(d1, k) == LoopCount(d1[k].start, d1[k].stop, d1[k].step)

(* dims[1..N] of get_valid_dimens, as a sequence; dims[0] is its length *)
RECURSIVE ValidFrom(_, _)
ValidFrom(d1, j) ==
  IF j > d1[0].leng THEN << >>
  ELSE (IF d1[j].flag # 0 THEN <<j>> ELSE << >>) \o ValidFrom(d1, j + 1)

get_valid_dimens(d1) == ValidFrom(d1, 1)

set_index(dimen, k, ndx) ==
  IF ndx < 0 \/ ndx >= dimen_length(dimen, k)
    THEN [rc |-> -1, err |-> "record index out of range", dimen |-> dimen]
    ELSE [rc |-> 0, err |-> "",
          dimen |-> [dimen EXCEPT ![k].start = ndx, ![k].stop = ndx + 1,
                                  ![k].step = 1, ![k].flag = 0]]

(* a slice that sets the stop of the dimension and keeps its start *)
set_seq_stop(dimen, k, min, max) ==
  [dimen EXCEPT ![k].stop = IF max > dimen[k].stop THEN dimen[k].stop ELSE max]

set_seq_slice(dimen, k, min, max) ==
  LET leng == dimen[k].stop
      mn == IF min < 0 THEN 0 ELSE (IF min > leng THEN leng ELSE min)
      mx0 == IF max < 0 THEN 0 ELSE (IF max > leng THEN leng ELSE max)
      mx == IF mx0 < mn THEN mn ELSE mx0
  IN  [dimen EXCEPT ![k].start = mn, ![k].stop = mx]

(***************************************************************************)
(* PySlice_GetIndices of the Python 2 C API, which set_map_slice calls:    *)
(* the three outputs are stored first, a negative bound has the length     *)
(* added once, and the call fails when stop > length, start >= length or   *)
(* step == 0.                                                              *)
(***************************************************************************)
PySlice_GetIndices(slice, length) ==
  LET step == IF slice.step = Py_None THEN 1 ELSE AsInt(slice.step)
      start == IF slice.start = Py_None THEN (IF step < 0 THEN length - 1 ELSE 0)
               ELSE (IF AsInt(slice.start) < 0 THEN AsInt(slice.start) + length
                     ELSE AsInt(slice.start))
      stop == IF slice.stop = Py_None THEN (IF step < 0 THEN -1 ELSE length)
              ELSE (IF AsInt(slice.stop) < 0 THEN AsInt(slice.stop) + length
                    ELSE AsInt(slice.stop))
  IN  [rc |-> IF stop > length \/ start >= length \/ step = 0 THEN -1 ELSE 0,
       start |-> start, stop |-> stop, step |-> step]

(* the stores of start, stop and step that PySlice_GetIndices made through *)
(* its pointers, g being what it returned, and the flag on success         *)
set_map_slice_indices(dimen, k, g) ==
  IF g.rc # 0
    THEN [rc |-> -1, err |-> "record index out of range",
          dimen |-> [dimen EXCEPT ![k].start = g.start, ![k].stop = g.stop,
                                  ![k].step = g.step]]
    ELSE [rc |-> 0, err |-> "",
          dimen |-> [dimen EXCEPT ![k].start = g.start, ![k].stop = g.stop,
                                  ![k].step = g.step, ![k].flag = 1]]

set_map_slice(dimen, k, item) ==
  IF item.k = "int" THEN set_index(dimen, k, AsInt(item))
  ELSE IF item.k = "slice"
    THEN set_map_slice_indices(dimen, k, PySlice_GetIndices(item, dimen_length(dimen, k)))
  ELSE [rc |-> -1, err |-> "bad index type", dimen |-> dimen]

(* for (j=0, k=dim[0]; j < PyTuple_Size(key); j++, k--) set_map_slice(...) *)
RECURSIVE TupleLoop(_, _, _, _)
RECURSIVE TupleStep(_, _, _, _)
TupleLoop(dimen, dim, key, j) ==
  IF j >= Len(key.elems) THEN [rc |-> 0, err |-> "", dimen |-> dimen]
  ELSE TupleStep(set_map_slice(dimen, dim[Len(dim) - j], key.elems[j + 1]), dim, key, j)

(* if (set_map_slice(...)) goto error;  r being what set_map_slice returned *)
TupleStep(r, dim, key, j) ==
  IF r.rc # 0 THEN r ELSE TupleLoop(r.dimen, dim, key, j + 1)

(* the recomputation of dimen[0] that ends set_indices *)
TopValid(dimen) ==
  LET dim == get_valid_dimens(dimen)
  IN  IF Len(dim) > 0 THEN [dimen EXCEPT ![0].stop = dim[Len(dim)]]
      ELSE [dimen EXCEPT ![0].stop = 0, ![0].flag = 0]

(* the end of set_indices, r being what the setting of the key returned *)
set_indices_stop(r) ==
  IF r.rc # 0 THEN r ELSE [r EXCEPT !.dimen = TopValid(r.dimen)]

set_indices(dimen, key) ==
  set_indices_stop(
    IF key.k = "tuple"
      THEN LET dim == get_valid_dimens(dimen)
           IN  IF Len(key.elems) > Len(dim)
                 THEN [rc |-> -1, err |-> "too many indices", dimen |-> dimen]
                 ELSE TupleLoop(dimen, dim, key, 0)
      ELSE set_map_slice(dimen, dimen[0].stop, key))

(* shape is a function on 0..n with shape[0] = n *)
RECURSIVE FromShapeSizes(_, _, _)
FromShapeSizes(new, j, n) ==
  IF j > n THEN new
  ELSE FromShapeSizes([new EXCEPT ![j].size = new[0].size,
                                  ![0].size = new[0].size * new[j].leng], j + 1, n)

dimen_fromshape(shape, itemsize) ==
  LET new0 == [j \in 0 .. shape[0] |->
                 [start |-> 0, stop |-> shape[j], step |-> 1, leng |-> shape[j],
                  size |-> IF j = 0 THEN itemsize ELSE 0, flag |-> 1]]
  IN  FromShapeSizes(new0, 2, shape[0])

(***************************************************************************)
(* PyMem_Malloc and PyMem_Free on a heap (a function from ids to arrays):  *)
(* a pointer is an id, an allocation takes the first id not in use.        *)
(***************************************************************************)
PyMem_Malloc(heap) ==
  CHOOSE n \in 1 .. (Cardinality(DOMAIN heap) + 1) :
    n \notin DOMAIN heap /\ \A m \in 1 .. (n - 1) : m \in DOMAIN heap

PyMem_Free(heap, p) == [x \in (DOMAIN heap) \ {p} |-> heap[x]]

(* the array itself in place of a clone of it *)
dimen_Alias(heap, d1) == [heap |-> heap, ptr |-> d1]

(* Clone a Dimen array: [heap, ptr], the heap with the clone in it and the *)
(* pointer to the clone                                                    *)
dimen_FromClone(heap, d1) ==
  LET new == PyMem_Malloc(heap)
  IN  [heap |-> heap @@ (new :> [j \in 0 .. heap[d1][0].leng |-> heap[d1][j]]),
       ptr |-> new]

(* the indices j, k, ... the loop  for (j=start; ...; j+=step)  visits *)
RECURSIVE LoopSeq(_, _, _)
LoopSeq(j, stop, step) ==
  IF (IF step < 0 THEN j > stop ELSE j < stop)
    THEN <<j>> \o LoopSeq(j + step, stop, step)
    ELSE << >>

(* the valid repetition dimensions of d1, innermost first *)
RECURSIVE ValidOuterFrom(_, _)
ValidOuterFrom(d1, j) ==
  IF j > d1[0].leng THEN << >>
  ELSE (IF d1[j].flag # 0 THEN <<j>> ELSE << >>) \o ValidOuterFrom(d1, j + 1)

(* Copy a Dimen array, reducing dimensions if necessary *)
dimen_FromCopy(d1, itemsize) ==
  LET outer == ValidOuterFrom(d1, 2)
      n_dimn == 1 + Len(outer)
      lengOf(j) == IF j = 0 THEN n_dimn
                   ELSE IF j = 1
                     THEN (IF d1[1].flag # 0 THEN dimen_length(d1, 1) ELSE 1)
                     ELSE dimen_length(d1, outer[j - 1])
      new0 == [j \in 0 .. n_dimn |->
                 [start |-> 0, stop |-> lengOf(j), step |-> 1, leng |-> lengOf(j),
                  size |-> IF j = 0 THEN itemsize ELSE 0,
                  flag |-> IF j = 1 THEN d1[1].flag ELSE 1]]
  IN  FromShapeSizes(new0, 2, n_dimn)

(* Return an Item type from Item and Dimen data: the items the item        *)
(* dimension of d1 selects, in its order *)
RECURSIVE FromItemAndDimenLoop(_, _, _, _, _)
FromItemAndDimenLoop(i1, ks, endian, j, new) ==
  IF j > Len(ks) THEN new
  ELSE FromItemAndDimenLoop(i1, ks, endian, j + 1,
         [x \in DOMAIN new \cup {j} |->
            IF x = j THEN [leng |-> new[0].size, type |-> i1[ks[j] + 1].type,
                           size |-> i1[ks[j] + 1].size, swap |-> format_swap(endian)]
            ELSE IF x = 0 THEN ItemHead(new[0].leng, new[0].size + i1[ks[j] + 1].size)
            ELSE new[x]])

(* the items of the sliced item dimension as they lie in i1 *)
item_Restricted(i1, d1, endian) ==
  LET ks == LoopSeq(d1[1].start, d1[1].stop, d1[1].step)
  IN  [x \in 0 .. Len(ks) |->
         IF x = 0 THEN ItemHead(Len(ks), i1[0].size)
         ELSE [i1[ks[x] + 1] EXCEPT !.swap = format_swap(endian)]]

item_FromItemAndDimen(i1, d1, endian) ==
  LET ks == LoopSeq(d1[1].start, d1[1].stop, d1[1].step)
  IN  FromItemAndDimenLoop(i1, ks, endian, 1, (0 :> ItemHead(Len(ks), 0)))

(***************************************************************************)
(* compare_record: true if array shapes match and array types can be cast  *)
(***************************************************************************)
seqs_neq == "unequal sequence lengths"

(* the first j1 in j1..n at which the lengths of the paired valid          *)
(* dimensions differ; 0 when there is none                                 *)
RECURSIVE CompareLengths(_, _, _, _, _)
CompareLengths(d1, dim1, d2, dim2, j1) ==
  IF j1 > Len(dim1) THEN 0
  ELSE IF dimen_length(d1, dim1[j1]) # dimen_length(d2, dim2[j1]) THEN j1
  ELSE CompareLengths(d1, dim1, d2, dim2, j1 + 1)

(* the item loop of compare_record from (j1, j2) on: FALSE at the first    *)
(* pair whose cast slot is 0                                               *)
(* an item loop that finds every pair castable *)
AllCastable(d1, i1, d2, i2, j1, j2) == TRUE

RECURSIVE CompareItems(_, _, _, _, _, _)
CompareItems(d1, i1, d2, i2, j1, j2) ==
  IF /\ (IF d1[1].step < 0 THEN j1 > d1[1].stop ELSE j1 < d1[1].stop)
     /\ (IF d2[1].step < 0 THEN j2 > d2[1].stop ELSE j2 < d2[1].stop)
    THEN /\ CastEntry(i1[j1 + 1].type, i2[j2 + 1].type)
         /\ CompareItems(d1, i1, d2, i2, j1 + d1[1].step, j2 + d2[1].step)
    ELSE TRUE

(* a comparison of the shapes alone, which leaves the items to the cast *)
compare_shapes(d1, i1, d2, i2) ==
  LET dim1 == get_valid_dimens(d1)
      dim2 == get_valid_dimens(d2)
  IN  IF Len(dim1) # Len(dim2)
        THEN [ok |-> FALSE, err |-> "array shapes are not equal"]
      ELSE IF CompareLengths(d1, dim1, d2, dim2, 1) # 0
        THEN [ok |-> FALSE, err |-> seqs_neq]
      ELSE [ok |-> TRUE, err |-> ""]

compare_record(d1, i1, d2, i2) ==
  LET dim1 == get_valid_dimens(d1)
      dim2 == get_valid_dimens(d2)
  IN  IF Len(dim1) # Len(dim2)
        THEN [ok |-> FALSE, err |-> "array shapes are not equal"]
      ELSE IF CompareLengths(d1, dim1, d2, dim2, 1) # 0
        THEN [ok |-> FALSE, err |-> seqs_neq]
      ELSE IF ~CompareItems(d1, i1, d2, i2, d1[1].start, d2[1].start)
        THEN [ok |-> FALSE, err |-> "cannot cast items"]
      ELSE [ok |-> TRUE, err |-> ""]

(***************************************************************************)
(* cast_record: recursively descend the Record array and coerce the data   *)
(* of one record type into another.  A char * is a buffer id and a byte    *)
(* offset into it; bufs maps the ids to the bytes, and the result carries  *)
(* the bytes as the casts done so far leave them.  rc is 0, or -1 with     *)
(* err set, or CRASH when the call goes through a null slot of the cast    *)
(* table.                                                                  *)
(***************************************************************************)
CRASH == -2
cast_internal == "Internal Record error while casting"

(* while((dim > 1) && (d[dim].flag == 0)) { p += d[dim].size*d[dim].start; dim--; } *)
RECURSIVE SkipCollapsed(_, _, _)
SkipCollapsed(dim, d, p) ==
  IF dim > 1 /\ d[dim].flag = 0
    THEN SkipCollapsed(dim - 1, d, p + d[dim].size * d[dim].start)
    ELSE [dim |-> dim, p |-> p]

(* the loop of the branch dim1 == 1 && dim2 == 1, from (j1, j2) on *)
RECURSIVE CastItems(_, _, _, _, _, _, _, _, _, _, _)
CastItems(d1, i1, B1, p1, d2, i2, B2, p2, j1, j2, bufs) ==
  IF (IF d1[1].step < 0 THEN j1 > d1[1].stop ELSE j1 < d1[1].stop)
    THEN IF ~CastEntry(i1[j1 + 1].type, i2[j2 + 1].type)
           THEN [rc |-> CRASH, err |-> "", bufs |-> bufs]
           ELSE CastItems(d1, i1, B1, p1, d2, i2, B2, p2,
                          j1 + d1[1].step, j2 + d2[1].step,
                          [bufs EXCEPT ![B1] =
                             Poke(bufs[B1], p1 + i1[j1 + 1].leng,
                                  CastBytes(i1[j1 + 1], i2[j2 + 1], bufs[B2], p2))])
    ELSE [rc |-> 0, err |-> "", bufs |-> bufs]

RECURSIVE cast_record(_, _, _, _, _, _, _, _, _, _, _)
RECURSIVE CastRows(_, _, _, _, _, _, _, _, _, _, _, _, _)

(* the loop of the branch dim1 > 1 && dim2 > 1, from (j1, j2) on *)
CastRows(dim1, d1, i1, B1, p1, dim2, d2, i2, B2, p2, j1, j2, bufs) ==
  IF (IF d1[dim1].step < 0 THEN j1 > d1[dim1].stop ELSE j1 < d1[dim1].stop)
    THEN LET r == cast_record(dim1 - 1, d1, i1, B1, p1 + d1[dim1].size * j1,
                              dim2 - 1, d2, i2, B2, p2 + d2[dim2].size * j2, bufs)
         IN  IF r.rc # 0 THEN r
             ELSE CastRows(dim1, d1, i1, B1, p1, dim2, d2, i2, B2, p2,
                           j1 + d1[dim1].step, j2 + d2[dim2].step, r.bufs)
    ELSE [rc |-> 0, err |-> "", bufs |-> bufs]

cast_record(dim1, d1, i1, B1, p1, dim2, d2, i2, B2, p2, bufs) ==
  LET f1 == SkipCollapsed(dim1, d1, p1)
      f2 == SkipCollapsed(dim2, d2, p2)
  IN  IF f1.dim = 1 /\ f2.dim = 1
        THEN CastItems(d1, i1, B1, f1.p, d2, i2, B2, f2.p, d1[1].start, d2[1].start, bufs)
      ELSE IF f1.dim > 1 /\ f2.dim > 1
        THEN CastRows(f1.dim, d1, i1, B1, f1.p, f2.dim, d2, i2, B2, f2.p,
                      d1[f1.dim].start, d2[f2.dim].start, bufs)
      ELSE [rc |-> -1, err |-> cast_internal, bufs |-> bufs]

(***************************************************************************)
(* get_record: convert a Record to a Python sequence                       *)
(***************************************************************************)
RECURSIVE get_record(_, _, _, _, _)
get_record(dim, d1, i1, b1, p1) ==
  LET ks == LoopSeq(d1[dim].start, d1[dim].stop, d1[dim].step)
  IN  IF dim = 1
        THEN IF d1[dim].flag # 0
               THEN PyTuple([j \in 1 .. Len(ks) |-> ItemGet(i1[ks[j] + 1], b1, p1)])
               ELSE ItemGet(i1[d1[dim].start + 1], b1, p1)
        ELSE IF d1[dim].flag # 0
               THEN PyList([j \in 1 .. Len(ks) |->
                              get_record(dim - 1, d1, i1, b1, p1 + d1[dim].size * ks[j])])
               ELSE get_record(dim - 1, d1, i1, b1, p1 + d1[dim].size * d1[dim].start)

(***************************************************************************)
(* X_set(i1, p1, ob): [rc, buf], the return value and the buffer after it. *)
(* PyString_AsString is NULL for an object that is not a string, and       *)
(* dereferences its argument, so a NULL object crashes it;                 *)
(* PyInt_AsLong and PyFloat_AsDouble return -1 for one they cannot         *)
(* convert, and the set functions store that and return 0.  The strings,   *)
(* ints and floats below are the objects the specifications pass.          *)
(***************************************************************************)
PyNULL == [k |-> "null"]
MinusOne == [k \in 1 .. LongLong |-> 255]
MinusOneDouble == <<0, 0, 0, 0, 0, 0, 240, 191>>

(* for (k=0; k<size && s[k]!='\0'; k++) p1[k] = s[k]; for ( ; k<size; k++) p1[k] = ' '; *)
RECURSIVE StrCopy(_, _, _)
StrCopy(s, k, size) ==
  IF k < size /\ k < Len(s) /\ s[k + 1] # 0
    THEN <<s[k + 1]>> \o StrCopy(s, k + 1, size)
    ELSE Spaces(size - k)

(* a float is converted through its nb_int slot, which is not a case here *)
PyInt_AsLong(ob) ==
  CASE ob.k = "int" -> Extend(Trunc(ob.v, longBits \div 8), TRUE, LongLong)
    [] ob.k \in {"str", "tuple", "list", "none", "null", "complex", "record"} -> MinusOne

PyFloat_AsDouble(ob) ==
  CASE ob.k = "float" -> ob.bits
    [] ob.k \in {"str", "tuple", "list", "none", "null"} -> MinusOneDouble

ItemSet(i1, b1, p1, ob) ==
  CASE i1.type \in {Item_STRING, Item_CHAR8} ->
         IF ob.k = "str"
           THEN [rc |-> 0, buf |-> Poke(b1, p1 + i1.leng, StrCopy(ob.s, 0, i1.size))]
           ELSE [rc |-> IF ob.k = "null" THEN CRASH ELSE -1, buf |-> b1]
    [] IsInteger(i1.type) ->
         [rc |-> 0,
          buf |-> UnionStore(b1, p1 + i1.leng,
                             FromLSB(Trunc(PyInt_AsLong(ob), Descr(i1.type).size)),
                             i1.swap = 1)]
    [] i1.type = Item_FLOAT64 ->
         [rc |-> 0,
          buf |-> UnionStore(b1, p1 + i1.leng, FromLSB(PyFloat_AsDouble(ob)), i1.swap = 1)]
    [] i1.type = Item_COMPLEX64 /\ ob.k = "complex" ->
         [rc |-> 0,
          buf |-> UnionStore(UnionStore(b1, p1 + i1.leng, FromLSB(ob.re), i1.swap = 1),
                             p1 + i1.leng + 8, FromLSB(ob.im), i1.swap = 1)]

(***************************************************************************)
(* set_record: convert a Python sequence to a Record.  PyTuple_GetItem and *)
(* PyList_GetItem return NULL past the end of the sequence; the type       *)
(* checks of the next level dereference the object.                        *)
(***************************************************************************)
GetItem(obj, j) == IF j < Len(obj.elems) THEN obj.elems[j + 1] ELSE PyNULL

(* the loop over a tuple at dim == 1, from (k, j) on *)
RECURSIVE SetItems(_, _, _, _, _, _, _)
SetItems(d1, i1, b1, p1, obj, k, j) ==
  IF (IF d1[1].step < 0 THEN k > d1[1].stop ELSE k < d1[1].stop)
    THEN LET r == ItemSet(i1[k + 1], b1, p1, GetItem(obj, j))
         IN  IF r.rc # 0 THEN r
             ELSE SetItems(d1, i1, r.buf, p1, obj, k + d1[1].step, j + 1)
    ELSE [rc |-> 0, buf |-> b1]

RECURSIVE set_record(_, _, _, _, _, _)
RECURSIVE SetRows(_, _, _, _, _, _, _, _)

(* the loop over a list at dim > 1, from (k, j) on *)
SetRows(dim, d1, i1, b1, p1, obj, k, j) ==
  IF (IF d1[dim].step < 0 THEN k > d1[dim].stop ELSE k < d1[dim].stop)
    THEN LET r == set_record(dim - 1, d1, i1, b1, p1 + d1[dim].size * k, GetItem(obj, j))
         IN  IF r.rc # 0 THEN r
             ELSE SetRows(dim, d1, i1, r.buf, p1, obj, k + d1[dim].step, j + 1)
    ELSE [rc |-> 0, buf |-> b1]

set_record(dim, d1, i1, b1, p1, obj) ==
  IF obj.k = "null" THEN [rc |-> CRASH, buf |-> b1]
  ELSE IF dim = 1
    THEN IF obj.k = "tuple"
           THEN SetItems(d1, i1, b1, p1, obj, d1[1].start, 0)
           ELSE ItemSet(i1[d1[1].start + 1], b1, p1, obj)
    ELSE IF obj.k = "list"
           THEN SetRows(dim, d1, i1, b1, p1, obj, d1[dim].start, 0)
           ELSE set_record(dim - 1, d1, i1, b1, p1 + d1[dim].size * d1[dim].start, obj)

(***************************************************************************)
(*                          The Record object                              *)
(*                                                                         *)
(* A handler is an operator of the receiver (an index into views) and its  *)
(* arguments; it yields the heaps, buffers and views it leaves and what it *)
(* returns: rc and err (the exception text), obj (the returned object, or  *)
(* PyNULL), and cmp, the result of compare_record when it was called.      *)
(***************************************************************************)
new_record(dimn, item, endn, pntr, data) ==
  [endn |-> endn, dimn |-> dimn, item |-> item, pntr |-> pntr, data |-> data]

PyRecord(v) == [k |-> "record", v |-> v]

(* the record of a call of compare_record: its arguments and its result *)
NoCompare == [called |-> FALSE]
Compared(c, d1, i1, d2, i2) ==
  [called |-> TRUE, ok |-> c.ok, d1 |-> d1, i1 |-> i1, d2 |-> d2, i2 |-> i2]

Ret(ds, is, bs, vs, rc, err, obj, cmp) ==
  [dimens |-> ds, items |-> is, buffers |-> bs, views |-> vs,
   rc |-> rc, err |-> err, obj |-> obj, cmp |-> cmp]

(* Return length of highest valid dimension. *)
record_length(this) == dimen_length(dimens[views[this].dimn], dimens[views[this].dimn][0].stop)

(* the shape attribute of record_getattr: outermost first *)
record_getattr_shape(this) ==
  LET d == dimens[views[this].dimn]
      dim == get_valid_dimens(d)
  IN  [j \in 1 .. Len(dim) |-> dimen_length(d, dim[Len(dim) - j + 1])]

(* a get that gives the new Record a buffer of its own, a copy of the bytes *)
GetResultCopied(this, ds, dimen) ==
  LET t == views[this]
      item == PyMem_Malloc(items)
      data == PyMem_Malloc(buffers)
  IN  IF ds[dimen][0].flag # 0
        THEN Ret(ds, items @@ (item :> item_FromItem(items[t.item], t.endn)),
                 buffers @@ (data :> buffers[t.data]),
                 Append(views, new_record(dimen, item, t.endn, t.pntr, data)),
                 0, "", PyRecord(Len(views) + 1), NoCompare)
        ELSE Ret(PyMem_Free(ds, dimen), items, buffers, views, 0, "",
                 get_record(ds[dimen][0].leng, ds[dimen], items[t.item],
                            buffers[t.data], t.pntr),
                 NoCompare)

(* what the three get handlers do with the clone once the key is set:      *)
(* a new Record over the same pntr and data, or a scalar object            *)
GetResult(this, ds, dimen) ==
  LET t == views[this]
  IN  IF ds[dimen][0].flag # 0
        THEN LET item == PyMem_Malloc(items)
             IN  Ret(ds, items @@ (item :> item_FromItem(items[t.item], t.endn)), buffers,
                     Append(views, new_record(dimen, item, t.endn, t.pntr, t.data)),
                     0, "", PyRecord(Len(views) + 1), NoCompare)
        ELSE Ret(PyMem_Free(ds, dimen), items, buffers, views, 0, "",
                 get_record(ds[dimen][0].leng, ds[dimen], items[t.item],
                            buffers[t.data], t.pntr),
                 NoCompare)

(* what the three set handlers do with the clone once the key is set *)
(* a set that writes nothing when set_record fails *)
SetResultAtomic(this, ds, dimen, obj) ==
  LET t == views[this]
      s == set_record(ds[dimen][0].leng, ds[dimen], items[t.item], buffers[t.data], t.pntr, obj)
  IN  Ret(PyMem_Free(ds, dimen), items,
          IF s.rc # 0 THEN buffers ELSE [buffers EXCEPT ![t.data] = s.buf], views,
          IF s.rc # 0 THEN s.rc ELSE 0, "", PyNULL, NoCompare)

SetResult(this, ds, dimen, obj) ==
  LET t == views[this]
      freed == PyMem_Free(ds, dimen)
  IN  IF obj.k = "record"
        THEN LET robj == views[obj.v]
                 c == compare_record(ds[dimen], items[t.item], ds[robj.dimn], items[robj.item])
                 r == cast_record(ds[dimen][0].leng, ds[dimen], items[t.item], t.data, t.pntr,
                                  ds[robj.dimn][0].leng, ds[robj.dimn], items[robj.item],
                                  robj.data, robj.pntr, buffers)
                 cmp == Compared(c, ds[dimen], items[t.item], ds[robj.dimn], items[robj.item])
             IN  IF ~c.ok THEN Ret(freed, items, buffers, views, -1, c.err, PyNULL, cmp)
                 ELSE IF r.rc # 0
                   THEN Ret(freed, items, r.bufs, views, r.rc, r.err, PyNULL, cmp)
                 ELSE Ret(freed, items, r.bufs, views, 0, "", PyNULL, cmp)
        ELSE LET s == set_record(ds[dimen][0].leng, ds[dimen], items[t.item],
                                 buffers[t.data], t.pntr, obj)
             IN  Ret(freed, items, [buffers EXCEPT ![t.data] = s.buf], views,
                     IF s.rc # 0 THEN s.rc ELSE 0, "", PyNULL, NoCompare)

record_getseqitem(this, ndx) ==
  LET c == dimen_FromClone(dimens, views[this].dimn)
      r == set_index(c.heap[c.ptr], c.heap[c.ptr][0].stop, ndx)
      ds == [c.heap EXCEPT ![c.ptr] = [r.dimen EXCEPT ![0].stop = r.dimen[0].stop - 1]]
  IN  IF r.rc # 0
        THEN Ret(PyMem_Free(c.heap, c.ptr), items, buffers, views, -1, r.err, PyNULL, NoCompare)
        ELSE GetResult(this, ds, c.ptr)

record_getseqslice(this, min, max) ==
  LET c == dimen_FromClone(dimens, views[this].dimn)
      ds == [c.heap EXCEPT ![c.ptr] =
               set_seq_slice(c.heap[c.ptr], c.heap[c.ptr][0].stop, min, max)]
  IN  GetResult(this, ds, c.ptr)

(* record_getmapitem after set_indices returned r on the clone c *)
getmapitem_result(this, c, r) ==
  IF r.rc # 0
    THEN Ret(PyMem_Free(c.heap, c.ptr), items, buffers, views, -1, r.err, PyNULL, NoCompare)
    ELSE GetResult(this, [c.heap EXCEPT ![c.ptr] = r.dimen], c.ptr)

record_getmapitem(this, key) ==
  LET c == dimen_FromClone(dimens, views[this].dimn)
  IN  getmapitem_result(this, c, set_indices(c.heap[c.ptr], key))

record_setseqitem(this, ndx, obj) ==
  LET c == dimen_FromClone(dimens, views[this].dimn)
      r == set_index(c.heap[c.ptr], c.heap[c.ptr][0].stop, ndx)
      ds == [c.heap EXCEPT ![c.ptr] = [r.dimen EXCEPT ![0].stop = r.dimen[0].stop - 1]]
  IN  IF r.rc # 0
        THEN Ret(PyMem_Free(c.heap, c.ptr), items, buffers, views, -1, r.err, PyNULL, NoCompare)
        ELSE SetResult(this, ds, c.ptr, obj)

record_setseqslice(this, min, max, obj) ==
  LET c == dimen_FromClone(dimens, views[this].dimn)
      ds == [c.heap EXCEPT ![c.ptr] =
               set_seq_slice(c.heap[c.ptr], c.heap[c.ptr][0].stop, min, max)]
  IN  SetResult(this, ds, c.ptr, obj)

(* record_setmapitem after set_indices returned r on the clone c *)
setmapitem_result(this, c, r, obj) ==
  IF r.rc # 0
    THEN Ret(PyMem_Free(c.heap, c.ptr), items, buffers, views, -1, r.err, PyNULL, NoCompare)
    ELSE SetResult(this, [c.heap EXCEPT ![c.ptr] = r.dimen], c.ptr, obj)

record_setmapitem(this, key, obj) ==
  LET c == dimen_FromClone(dimens, views[this].dimn)
  IN  setmapitem_result(this, c, set_indices(c.heap[c.ptr], key), obj)

(***************************************************************************)
(* record_copy: a copy of this object over a new buffer.  The new string   *)
(* object's bytes are uninitialized (UNINIT) until cast_record writes them.*)
(* endn is the endian keyword's first character, or "" when not given.     *)
(***************************************************************************)
UNINIT == -1

(* a copy that is a full slice of this object, over the same buffer *)
record_slice(this, endn) == record_getseqslice(this, 0, 2147483647)

record_copy(this, endn) ==
  LET t == views[this]
      endian == IF endn = "" THEN t.endn ELSE endn
      item == item_FromItemAndDimen(items[t.item], dimens[t.dimn], endian)
      dimen == dimen_FromCopy(dimens[t.dimn], item[0].size)
      ip == PyMem_Malloc(items)
      dp == PyMem_Malloc(dimens)
      bp == PyMem_Malloc(buffers)
      bs == buffers @@ (bp :> [k \in 1 .. dimen[0].size |-> UNINIT])
      c == compare_record(dimen, item, dimens[t.dimn], items[t.item])
      r == cast_record(dimen[0].leng, dimen, item, bp, 0,
                       dimens[t.dimn][0].leng, dimens[t.dimn], items[t.item],
                       t.data, t.pntr, bs)
      cmp == Compared(c, dimen, item, dimens[t.dimn], items[t.item])
  IN  IF endn # "" /\ endn \notin Endians
        THEN Ret(dimens, items, buffers, views, -1, "Unknown endian type", PyNULL, NoCompare)
      ELSE IF ~c.ok THEN Ret(dimens, items, buffers, views, -1, c.err, PyNULL, cmp)
      ELSE IF r.rc # 0 THEN Ret(dimens, items, buffers, views, r.rc, r.err, PyNULL, cmp)
      ELSE Ret(dimens @@ (dp :> dimen), items @@ (ip :> item), r.bufs,
               Append(views, new_record(dp, ip, endian, 0, bp)),
               0, "", PyRecord(Len(views) + 1), cmp)

(***************************************************************************)
(* item_asformat: the string representation of an Item type, and the       *)
(* format attribute of record_getattr                                      *)
(***************************************************************************)
(* the last digit of n *)
Units(n) == <<Digits[(n % 10) + 1]>>

(* sprintf(str, "%d", n) for n >= 0 *)
RECURSIVE Decimal(_)
Decimal(n) == IF n < 10 THEN <<Digits[n + 1]>> ELSE Decimal(n \div 10) \o <<Digits[(n % 10) + 1]>>

(* what the loop appends for the items ks[x], ks[x+1], ... *)
RECURSIVE AsFormatLoop(_, _, _, _)
AsFormatLoop(d1, i1, ks, x) ==
  IF x > Len(ks) THEN << >>
  ELSE Descr(i1[ks[x] + 1].type).repr
         \o (IF Descr(i1[ks[x] + 1].type).repr = <<"s">>
               THEN Decimal(i1[ks[x] + 1].size) ELSE << >>)
         \o (IF ks[x] < d1[1].stop - d1[1].step THEN <<",">> ELSE << >>)
         \o AsFormatLoop(d1, i1, ks, x + 1)

item_asformat(d1, endian, i1) ==
  <<endian>> \o AsFormatLoop(d1, i1, LoopSeq(d1[1].start, d1[1].stop, d1[1].step), 1)

record_getattr_format(this) ==
  Ret(dimens, items, buffers, views, 0, "",
      PyString(item_asformat(dimens[views[this].dimn], views[this].endn,
                             items[views[this].item])),
      NoCompare)

(***************************************************************************)
(* record_setattr, the shape attribute: obj is a tuple of ints             *)
(***************************************************************************)
record_setattr_shape(this, obj) ==
  LET t == views[this]
      n_dimn == Len(obj.elems)
      dims == [j \in 0 .. n_dimn |->
                 IF j = 0 THEN n_dimn ELSE AsInt(obj.elems[n_dimn - j + 1])]
      dimen == dimen_fromshape(dims, items[t.item][0].size)
      dp == PyMem_Malloc(dimens)
  IN  IF obj.k # "tuple"
        THEN Ret(dimens, items, buffers, views, -1, "expecting tuple type", PyNULL, NoCompare)
      ELSE IF dimen[0].size # dimens[t.dimn][0].size
        THEN Ret(dimens, items, buffers, views, -1, "array shapes not equal", PyNULL, NoCompare)
      ELSE Ret(PyMem_Free(dimens @@ (dp :> dimen), t.dimn), items, buffers,
               [views EXCEPT ![this].dimn = dp], 0, "", PyNULL, NoCompare)

(***************************************************************************)
(* record_fromstring(data, count, format): the state it returns a Record   *)
(* in, or rc = -1 and the text of the exception (none when the format      *)
(* holds no item).  With no count given and a record size of 0 the string  *)
(* size is divided by zero, which is undefined: the call crashes (ub =     *)
(* "crash"), or the division yields 0 and leaves the string size as the    *)
(* remainder (ub = "proceed").                                             *)
(***************************************************************************)
Failed(err) == Ret(<< >>, << >>, << >>, << >>, -1, err, PyNULL, NoCompare)
Crashed == Ret(<< >>, << >>, << >>, << >>, CRASH, "", PyNULL, NoCompare)

Undefined == {"crash", "proceed"}

(* PyString_Size(data) % size and PyString_Size(data) / size *)
SizeRem(data, size) == IF size = 0 THEN Len(data) ELSE Len(data) % size
SizeQuot(data, size) == IF size = 0 THEN 0 ELSE Len(data) \div size

(* record_fromstring once the format is parsed into item *)
fromstring_item(data, count, endian, item, ub) ==
  IF count < 0 /\ item[0].size = 0 /\ ub = "crash" THEN Crashed
  ELSE IF count < 0 /\ SizeRem(data, item[0].size) # 0
    THEN Failed("string size not multiple of record size")
  ELSE IF count >= 0 /\ Len(data) < count * item[0].size
    THEN Failed("string size is less than requested size")
  ELSE Ret((1 :> dimen_fromshape((0 :> 2) @@ (1 :> item[0].leng)
                                   @@ (2 :> IF count < 0 THEN SizeQuot(data, item[0].size)
                                            ELSE count),
                                 item[0].size)),
           (1 :> item), (1 :> data), <<new_record(1, 1, endian, 0, 1)>>,
           0, "", PyRecord(1), NoCompare)

(* record_fromstring once the endian code is read *)
fromstring_format(data, count, fe, it, ub) ==
  IF ~it.ok THEN Failed(it.err) ELSE fromstring_item(data, count, fe.endian, it.item, ub)

fromstring_endian(data, count, format, fe, ub) ==
  fromstring_format(data, count, fe, item_FromFormat(fe.endian, format, fe.pos), ub)

record_fromstring(data, count, format, ub) ==
  fromstring_endian(data, count, format, format_endian(format, skip_space(format, 1)), ub)

(***************************************************************************)
(* get_array_shape(dim, data, shape): determine the shape of a list of     *)
(* tuples.  shape is the Python list it appends to and updates, a sequence *)
(* of int objects (list lengths) and one tuple of int objects (the type    *)
(* found at each position of the tuples, a string of n bytes being -n);    *)
(* the result is [rc, shape].                                              *)
(***************************************************************************)
PyTuple_Size(ob) == IF ob.k = "tuple" THEN Len(ob.elems) ELSE -1

(* PyInt_AsLong of an entry of the shape list: -1 for the tuple *)
ShapeInt(ob) == IF ob.k = "int" THEN AsInt(ob) ELSE -1

(* the type a position holds after obj was seen in it *)
PromoteType(type, obj) ==
  IF obj.k = "str" THEN (IF -Len(obj.s) < type THEN -Len(obj.s) ELSE type)
  ELSE IF obj.k = "int" /\ 0 <= type /\ type < Item_SINT32 THEN Item_SINT32
  ELSE IF obj.k = "float" /\ 0 <= type /\ type < Item_FLOAT64 THEN Item_FLOAT64
  ELSE IF obj.k = "complex" /\ 0 <= type /\ type < Item_COMPLEX64 THEN Item_COMPLEX64
  ELSE type

(* the loop over the positions of the tuple data, on tupl = shape[dim-1] *)
ShapeOfTuple(dim, data, shape) ==
  [rc |-> 0,
   shape |-> [shape EXCEPT ![dim] =
                PyTuple([j \in 1 .. Len(data.elems) |->
                           PyInt(PromoteType(AsInt(shape[dim].elems[j]), data.elems[j]))])]]

RECURSIVE get_array_shape(_, _, _)
RECURSIVE ShapeOfList(_, _, _, _)

(* if ((ret = get_array_shape(dim+1, ...))) return -1;  r being its result *)
ShapeOfListStep(dim, data, r, j) ==
  IF r.rc # 0 THEN [rc |-> -1, shape |-> r.shape] ELSE ShapeOfList(dim, data, r.shape, j + 1)

(* the loop over the elements of the list data, from element j on *)
ShapeOfList(dim, data, shape, j) ==
  IF j > Len(data.elems) THEN [rc |-> 0, shape |-> shape]
  ELSE ShapeOfListStep(dim, data, get_array_shape(dim + 1, data.elems[j], shape), j)

get_array_shape(dim, data, shape) ==
  IF data.k = "tuple"
    THEN IF Len(shape) < dim
           THEN ShapeOfTuple(dim, data,
                             Append(shape, PyTuple([j \in 1 .. Len(data.elems) |-> PyInt(0)])))
         ELSE IF PyTuple_Size(shape[dim]) # Len(data.elems)
           THEN [rc |-> -1, shape |-> shape]
         ELSE ShapeOfTuple(dim, data, shape)
  ELSE IF data.k = "list"
    THEN IF Len(shape) < dim
           THEN ShapeOfList(dim, data, Append(shape, PyInt(Len(data.elems))), 1)
         ELSE IF ShapeInt(shape[dim]) # Len(data.elems)
           THEN [rc |-> -1, shape |-> shape]
         ELSE ShapeOfList(dim, data, shape, 1)
  ELSE [rc |-> -1, shape |-> shape]

(***************************************************************************)
(* record_new(data, format): create a Record from a nested list of tuples  *)
(* and an optional format string (given is FALSE when format is NULL).     *)
(* ub is what the build does where the C code's behaviour is undefined or  *)
(* depends on the Python version:                                          *)
(*   PyString_FromStringAndSize(0, size) with size < 0 returns NULL with   *)
(*   SystemError ("null"), or crashes ("crash"), or returns a string       *)
(*   object that holds no byte ("proceed");                                *)
(*   the error path after a failed set_record frees the buffer, the Dimen  *)
(*   and the Item arrays that Py_DECREF(new) has freed: the call crashes   *)
(*   ("crash") or returns NULL.                                            *)
(***************************************************************************)
(* the format of the type found at one position, << >> for none *)
TypeFormat(type) ==
  IF type < 0 THEN <<"s">> \o Decimal(-type)
  ELSE IF type = Item_SINT32 THEN <<"i", "3", "2">>
  ELSE IF type = Item_FLOAT64 THEN <<"f", "6", "4">>
  ELSE IF type = Item_COMPLEX64 THEN <<"F", "6", "4">>
  ELSE << >>

(* the loop that builds fmt from the tuple of types, from position j on *)
RECURSIVE InferFormat(_, _, _)
InferFormat(tuple, j, fmt) ==
  IF j > Len(tuple.elems) THEN [ok |-> TRUE, fmt |-> fmt]
  ELSE IF TypeFormat(AsInt(tuple.elems[j])) = << >> THEN [ok |-> FALSE, fmt |-> fmt]
  ELSE InferFormat(tuple, j + 1,
                   fmt \o TypeFormat(AsInt(tuple.elems[j]))
                       \o (IF j < Len(tuple.elems) THEN <<",">> ELSE << >>))

(* What a call has done with the structures it allocates: made is the set  *)
(* of those it allocated ("shape" the shape list, "fmt" the format string  *)
(* it builds, "dims", "item", "dimen", "buffer" the data string, "new" the *)
(* Record object), freed the sequence of those it released, in order       *)
(* (a Python object is released when its reference count reaches 0).       *)
Leaving(r, made, freed) ==
  [dimens |-> r.dimens, items |-> r.items, buffers |-> r.buffers, views |-> r.views,
   rc |-> r.rc, err |-> r.err, obj |-> r.obj, cmp |-> r.cmp,
   mem |-> [made |-> made, freed |-> freed]]

(* Py_DECREF(new), which record_dealloc serves, and the three PyMem_Free   *)
(* of the error path after it                                              *)
ErrorAfterNew == <<"buffer", "dimen", "item", "new", "buffer", "dimen", "item">>

(* the end of record_new, s being what set_record returned *)
new_result(endian, item, dimen, s, ub, made, freed) ==
  IF s.rc = CRASH \/ (s.rc # 0 /\ ub = "crash")
    THEN Leaving(Crashed, made \cup {"new"}, freed)
  ELSE IF s.rc # 0 THEN Leaving(Failed(""), made \cup {"new"}, freed \o ErrorAfterNew)
  ELSE Leaving(Ret((1 :> dimen), (1 :> item), (1 :> s.buf),
                   <<new_record(1, 1, endian, 0, 1)>>, 0, "", PyRecord(1), NoCompare),
               made \cup {"new"}, freed)

(* record_new from the creation of the data buffer on *)
new_buffer(data, endian, item, dimen, ub, made, freed) ==
  IF dimen[0].size < 0
    THEN IF ub = "null"
           THEN Leaving(Failed("Negative size passed to PyString_FromStringAndSize"),
                        made, freed \o <<"dimen", "item">>)
         ELSE IF ub = "crash" THEN Leaving(Crashed, made, freed)
         ELSE new_result(endian, item, dimen,
                         set_record(dimen[0].leng, dimen, item, << >>, 0, data), ub,
                         made \cup {"buffer"}, freed)
    ELSE new_result(endian, item, dimen,
                    set_record(dimen[0].leng, dimen, item,
                               [k \in 1 .. dimen[0].size |-> UNINIT], 0, data), ub,
                    made \cup {"buffer"}, freed)

(* dims[j]: the shape list reversed twice, its element 0 set to the number *)
(* of items                                                                *)
new_dims(shape, item) ==
  [j \in 0 .. Len(shape) |->
     IF j = 0 THEN Len(shape) ELSE IF j = 1 THEN item[0].leng ELSE ShapeInt(shape[j])]

(* record_new once the format is parsed, it being what item_FromFormat     *)
(* returned (which frees the array it allocated when it finds a bad type)  *)
new_item(data, shape, endian, it, ub, made, freed) ==
  IF ~it.ok
    THEN IF it.err = "" THEN Leaving(Failed(it.err), made, freed)
         ELSE Leaving(Failed(it.err), made \cup {"item"}, freed \o <<"item">>)
  ELSE new_buffer(data, endian, it.item,
                  [dimen_fromshape(new_dims(shape, it.item), it.item[0].size)
                     EXCEPT ![1].leng = it.item[0].leng],
                  ub, made \cup {"item", "dims", "dimen"}, freed \o <<"shape", "dims">>)

(* the format string made from the tuple of types, inf being the result of *)
(* the loop                                                                *)
new_inferred(data, shape, inf, ub) ==
  IF ~inf.ok THEN Leaving(Failed("Unkown format type"), {"shape", "fmt"}, << >>)
  ELSE new_item(data, shape, NAT, item_FromFormat(NAT, inf.fmt, 1), ub,
                {"shape", "fmt"}, IF item_FromFormat(NAT, inf.fmt, 1).ok THEN <<"fmt">> ELSE << >>)

(* record_new once the shape is known, s being what get_array_shape        *)
(* returned and fe what format_endian returned.  A shape list that ends    *)
(* with no tuple makes the size of fmt negative, and the allocation fails; *)
(* an empty tuple leaves fmt with no byte set, and item_FromFormat reads   *)
(* it: the call crashes, or finds a NUL and returns 0.                     *)
new_shaped(data, given, format, fe, s, ub) ==
  IF s.rc # 0 THEN Leaving(Failed("Cannot determine shape of data"), {"shape"}, << >>)
  ELSE IF given THEN new_item(data, s.shape, fe.endian,
                              item_FromFormat(fe.endian, format, fe.pos), ub,
                              {"shape"}, << >>)
  ELSE IF PyTuple_Size(s.shape[Len(s.shape)]) < 0 THEN Leaving(Failed(""), {"shape"}, << >>)
  ELSE IF PyTuple_Size(s.shape[Len(s.shape)]) = 0
    THEN Leaving(IF ub = "crash" THEN Crashed ELSE Failed(""), {"shape", "fmt"}, << >>)
  ELSE new_inferred(data, s.shape, InferFormat(s.shape[Len(s.shape)], 1, << >>), ub)

record_new(data, given, format, ub) ==
  new_shaped(data, given, format, format_endian(format, skip_space(format, 1)),
             get_array_shape(1, data, << >>), ub)

(***************************************************************************)
(*                     The Record object as a machine                      *)
(*                                                                         *)
(* One Record is built by record.fromstring over Count records of the      *)
(* format "s4,f64"; every later step is one call of a handler on a live    *)
(* Record with arguments from the sets below.                              *)
(***************************************************************************)
MaxViews == 4
MaxCalls == 3
Count == 2

Format == <<"s", "4", ",", "f", "6", "4">>
Data == [k \in 1 .. (item_FromFormat(NAT, Format, 1).item[0].size * Count) |-> 64 + k]

None == Py_None
Full == PySlice(None, None, None)
Rev == PySlice(None, None, PyInt(-1))
MapKeys ==
  {PyInt(0), PyInt(1), Full, Rev,
   PyTuple(<<Full, PyInt(0)>>), PyTuple(<<Full, PyInt(1)>>)}
Indexes == {0, 1}
Slices == {<<0, 1>>, <<1, 2147483647>>}
Shapes == {PyTuple(<<PyInt(1), PyInt(2), PyInt(2)>>), PyTuple(<<PyInt(2), PyInt(2)>>)}
CopyEndians == {"", BIG}

Hi == PyString(<<72, 105>>)
One == PyFloat(<<0, 0, 0, 0, 0, 0, 240, 63>>)
Plain == {Hi, One, PyTuple(<<Hi, One>>)}
Objects == Plain \cup {PyRecord(v) : v \in DOMAIN views}

(***************************************************************************)
(* The reference count of a data buffer (ob_refcnt of the Python string):  *)
(* cnt is the count, ext the number of those references that are held      *)
(* outside Record objects (by the caller, or by a local of the handler).   *)
(***************************************************************************)
Py_KEPT(ob) == ob
Py_INCREF(ob) == [ob EXCEPT !.cnt = @ + 1]
Py_DECREF(ob) == [ob EXCEPT !.cnt = @ - 1]

(* a string object as its maker receives it: one reference, the maker's *)
PyString_New == [cnt |-> 1, ext |-> 1]

(* the maker of the string gives its reference up: Py_DECREF(buffer) *)
Py_DECREF_own(ob) == [Py_DECREF(ob) EXCEPT !.ext = @ - 1]

(* new_record's Py_INCREF(data) for the Records vs[v], vs[v+1], ... *)
RECURSIVE new_record_refs(_, _, _)
new_record_refs(rf, vs, v) ==
  IF v > Len(vs) THEN rf
  ELSE new_record_refs([rf EXCEPT ![vs[v].data] = Py_INCREF(@)], vs, v + 1)

(* the counts after a handler that left the buffers bs and the Records vs: *)
(* the strings it made start with one reference, each Record it made took  *)
(* one, and the handler released its own unless the string is the caller's *)
Counted(rf, bs, vs, from, callers) ==
  LET made == (DOMAIN bs) \ (DOMAIN rf)
      rf1 == [b \in DOMAIN bs |-> IF b \in made THEN PyString_New ELSE rf[b]]
      rf2 == new_record_refs(rf1, vs, from)
  IN  [b \in DOMAIN bs |-> IF b \in made /\ ~callers THEN Py_DECREF_own(rf2[b]) ELSE rf2[b]]

Init ==
  /\ hostLittle \in BOOLEAN
  /\ longBits = 64
  /\ \E ub \in Undefined : \E r \in {record_fromstring(Data, -1, Format, ub)} :
       /\ r.rc = 0
       /\ dimens = r.dimens
       /\ items = r.items
       /\ buffers = r.buffers
       /\ views = r.views
       /\ refs = Counted(<< >>, r.buffers, r.views, 1, TRUE)
       /\ res = [op |-> "fromstring", this |-> 0, key |-> PyNULL, val |-> PyNULL,
                 rc |-> r.rc, err |-> r.err, obj |-> r.obj, cmp |-> r.cmp,
                 calls |-> 0]

GetOps == {"getmapitem", "getseqitem", "getseqslice"}
SetOps == {"setmapitem", "setseqitem", "setseqslice"}

(* the calls the bounds allow in this state *)
CanCall == res.calls < MaxCalls

(* the state after a handler call that returned r *)
Return(r, op, this, key, val) ==
  /\ Len(r.views) <= MaxViews
  /\ dimens' = r.dimens
  /\ items' = r.items
  /\ buffers' = r.buffers
  /\ views' = r.views
  /\ refs' = Counted(refs, r.buffers, r.views, Len(views) + 1, FALSE)
  /\ res' = [op |-> op, this |-> this, key |-> key, val |-> val,
             rc |-> r.rc, err |-> r.err, obj |-> r.obj, cmp |-> r.cmp,
             calls |-> res.calls + 1]
  /\ UNCHANGED <<hostLittle, longBits>>

GetMapItem ==
  /\ CanCall
  /\ \E this \in DOMAIN views, key \in MapKeys :
       \E r \in {record_getmapitem(this, key)} :
         Return(r, "getmapitem", this, key, PyNULL)

GetSeqItem ==
  /\ CanCall
  /\ \E this \in DOMAIN views, ndx \in Indexes :
       \E r \in {record_getseqitem(this, ndx)} :
         Return(r, "getseqitem", this, PyInt(ndx), PyNULL)

GetSeqSlice ==
  /\ CanCall
  /\ \E this \in DOMAIN views, s \in Slices :
       \E r \in {record_getseqslice(this, s[1], s[2])} :
         Return(r, "getseqslice", this, PySlice(PyInt(s[1]), PyInt(s[2]), None), PyNULL)

SetMapItem ==
  /\ CanCall
  /\ \E this \in DOMAIN views, key \in MapKeys, obj \in Objects :
       \E r \in {record_setmapitem(this, key, obj)} :
         Return(r, "setmapitem", this, key, obj)

SetSeqItem ==
  /\ CanCall
  /\ \E this \in DOMAIN views, ndx \in Indexes, obj \in Objects :
       \E r \in {record_setseqitem(this, ndx, obj)} :
         Return(r, "setseqitem", this, PyInt(ndx), obj)

SetSeqSlice ==
  /\ CanCall
  /\ \E this \in DOMAIN views, s \in Slices, obj \in Objects :
       \E r \in {record_setseqslice(this, s[1], s[2], obj)} :
         Return(r, "setseqslice", this, PySlice(PyInt(s[1]), PyInt(s[2]), None), obj)

Copy ==
  /\ CanCall
  /\ \E this \in DOMAIN views, endn \in CopyEndians :
       \E r \in {record_copy(this, endn)} :
         Return(r, "copy", this, PyNULL, PyString(<<endn>>))

SetShape ==
  /\ CanCall
  /\ \E this \in DOMAIN views, obj \in Shapes :
       \E r \in {record_setattr_shape(this, obj)} :
         Return(r, "setattr", this, PyNULL, obj)

Next ==
  \/ GetMapItem
  \/ GetSeqItem
  \/ GetSeqSlice
  \/ SetMapItem
  \/ SetSeqItem
  \/ SetSeqSlice
  \/ Copy
  \/ SetShape

Spec == Init /\ [][Next]_vars

(***************************************************************************)
(*                      Properties of the machine                          *)
(***************************************************************************)
(* the expanded axes of a Dimen array, and what one of its axes selects *)
ExpandedAxes(d) == {j \in 1 .. d[0].leng : d[j].flag # 0}
InRange(d, j, n) ==
  IF d[j].step < 0 THEN d[j].start + n * d[j].step > d[j].stop
  ELSE d[j].start + n * d[j].step < d[j].stop
AxisLength(d, j) == Cardinality({n \in 0 .. (d[j].leng + 1) : InRange(d, j, n)})
(* the rank of an expanded axis counted from the outermost expanded axis *)
RankFromOutermost(d, j) == Cardinality({a \in ExpandedAxes(d) : a >= j})

SameAxisCount(c) == Cardinality(ExpandedAxes(c.d1)) = Cardinality(ExpandedAxes(c.d2))
EqualAxisLengths(c) ==
  \A a \in ExpandedAxes(c.d1), b \in ExpandedAxes(c.d2) :
    RankFromOutermost(c.d1, a) = RankFromOutermost(c.d2, b)
      => AxisLength(c.d1, a) = AxisLength(c.d2, b)
(* the n-th paired position of the two item axes, when both have one *)
Paired(c, n) == InRange(c.d1, 1, n) /\ InRange(c.d2, 1, n)
DstItem(c, n) == c.i1[c.d1[1].start + n * c.d1[1].step + 1]
SrcItem(c, n) == c.i2[c.d2[1].start + n * c.d2[1].step + 1]
ItemsCastable(c) ==
  \A n \in 0 .. c.d1[1].leng :
    Paired(c, n) => CastEntry(DstItem(c, n).type, SrcItem(c, n).type)

(* C1: whenever compare_record has succeeded in a handler, the cast_record *)
(* that follows does not end in "Internal Record error while casting".     *)
C1_NoInternalErrorAfterCompare ==
  (res.cmp.called /\ res.cmp.ok) => res.err # cast_internal

(* C2: compare_record succeeds if and only if the two sides have the same  *)
(* number of expanded axes, their expanded axes paired from the outermost  *)
(* have equal lengths, and at every paired position of the item axes the   *)
(* destination item's cast table has an entry for the source item's type.  *)
C2_CompareIff ==
  res.cmp.called =>
    (res.cmp.ok <=> (SameAxisCount(res.cmp) /\ EqualAxisLengths(res.cmp)
                       /\ ItemsCastable(res.cmp)))

C2_Witness ==
  /\ res.op = "setmapitem"
  /\ res.cmp.called
  /\ ~res.cmp.ok
  /\ SameAxisCount(res.cmp)
  /\ EqualAxisLengths(res.cmp)
  /\ Cardinality(ExpandedAxes(res.cmp.d1)) = 1

(* C4: an assignment of a Record whose paired item is a Float64 to a       *)
(* position whose item is a String of size 4, the shapes of the two sides  *)
(* matching, returns -1 with "cannot cast items" and leaves every byte of  *)
(* every buffer as it was.                                                 *)
FloatIntoString(c) ==
  /\ c.called
  /\ SameAxisCount(c)
  /\ EqualAxisLengths(c)
  /\ \E n \in 0 .. c.d1[1].leng :
       /\ Paired(c, n)
       /\ DstItem(c, n).type = Item_STRING
       /\ DstItem(c, n).size = 4
       /\ SrcItem(c, n).type = Item_FLOAT64

C4_FloatIntoStringRejected ==
  [][(res'.op \in SetOps /\ FloatIntoString(res'.cmp))
       => (res'.rc = -1 /\ res'.err = "cannot cast items" /\ buffers' = buffers)]_vars

C4_Witness ==
  /\ res.op = "setmapitem"
  /\ FloatIntoString(res.cmp)
  /\ res.err = "cannot cast items"

(* C6: a get that returns a Record returns one over the pntr and data of   *)
(* its receiver and copies no byte; a successful set through a Record      *)
(* writes into the buffer that Record shares, so every Record over that    *)
(* buffer still shares it and reads the bytes as written, and no other     *)
(* buffer changes.                                                         *)
SharesBuffer(new, src) == new.data = src.data /\ new.pntr = src.pntr

C6_DerivedViewSharesBuffer ==
  [][/\ (res'.op \in GetOps /\ res'.obj.k = "record")
          => /\ SharesBuffer(views'[res'.obj.v], views[res'.this])
             /\ buffers' = buffers
     /\ (res'.op \in SetOps /\ res'.rc = 0)
          => \A w \in DOMAIN views :
               /\ views'[w] = views[w]
               /\ views[w].data # views[res'.this].data
                    => buffers'[views[w].data] = buffers[views[w].data]]_vars

(* a write through a derived Record is read through the first Record *)
C6_Witness ==
  /\ res.op \in SetOps
  /\ res.rc = 0
  /\ res.this # 1
  /\ res.val = Hi
  /\ views[res.this].data = views[1].data
  /\ buffers[views[1].data] # Data
  /\ \E k \in {0, 1} :
       get_record(1, dimens[views[1].dimn], items[views[1].item],
                  buffers[views[1].data], views[1].pntr + 12 * k).elems[1]
         = PyString(<<72, 105, SPACE, SPACE>>)

(* C7: a get or a set, whether it succeeds or fails, leaves the Dimen and  *)
(* Item arrays of every Record that was live as they were, and after it no *)
(* two Records share a Dimen array or an Item array.                       *)
Untouched(v) ==
  /\ views'[v] = views[v]
  /\ views[v].dimn \in DOMAIN dimens'
  /\ views[v].item \in DOMAIN items'
  /\ dimens'[views[v].dimn] = dimens[views[v].dimn]
  /\ items'[views[v].item] = items[views[v].item]

NoSharing ==
  \A v, w \in DOMAIN views :
    v # w => views[v].dimn # views[w].dimn /\ views[v].item # views[w].item

C7_KeyResolvedOnClone ==
  [][res'.op \in (GetOps \cup SetOps)
       => (\A v \in DOMAIN views : Untouched(v)) /\ NoSharing']_vars

C7_Witness ==
  /\ res.op = "getmapitem"
  /\ res.obj.k = "record"
  /\ dimens[views[res.obj.v].dimn] # dimens[views[res.this].dimn]

(* C8: a successful copy returns a Record over a buffer that did not exist *)
(* before and changes no byte of any existing buffer; a set through a      *)
(* Record changes no buffer but that Record's own.                         *)
C8_CopyIsIndependent ==
  [][/\ (res'.op = "copy" /\ res'.rc = 0)
          => /\ views'[res'.obj.v].data \notin DOMAIN buffers
             /\ \A b \in DOMAIN buffers : buffers'[b] = buffers[b]
     /\ res'.op \in SetOps
          => \A b \in DOMAIN buffers :
               b # views[res'.this].data => buffers'[b] = buffers[b]]_vars

(* a write through a copy, which the original does not read *)
C8_Witness ==
  /\ res.op \in SetOps
  /\ res.rc = 0
  /\ views[res.this].data # views[1].data
  /\ buffers[views[1].data] = Data
  /\ buffers[views[res.this].data] # Data

(* C9: a get never returns a Record in which an axis that was collapsed in *)
(* its receiver is expanded.                                               *)
C9_CollapseIsIrreversible ==
  [][(res'.op \in GetOps /\ res'.obj.k = "record")
       => \A j \in 1 .. dimens[views[res'.this].dimn][0].leng :
            dimens[views[res'.this].dimn][j].flag = 0
              => dimens'[views'[res'.obj.v].dimn][j].flag = 0]_vars

(* C10: the length of a Record with an expanded axis is the first          *)
(* component of its shape.                                                 *)
C10_LengthIsOutermostAxis ==
  \A v \in DOMAIN views :
    ExpandedAxes(dimens[views[v].dimn]) # {}
      => record_length(v) = record_getattr_shape(v)[1]

(* C11: the length of a Record with no expanded axis is 1, and the key 0   *)
(* on it is accepted.                                                      *)
C11_ScalarViewHasLengthOne ==
  \A v \in DOMAIN views :
    ExpandedAxes(dimens[views[v].dimn]) = {}
      => /\ record_length(v) = 1
         /\ record_getmapitem(v, PyInt(0)).rc = 0

(***************************************************************************)
(*                  The cast of one item into another                      *)
(*                                                                         *)
(* Two Records of one record of one item each, made by record.fromstring:  *)
(* Record 1, the destination, of type dst with endian tag e1 over    *)
(* zero bytes; Record 2, the source, of type src with tag e2 over the      *)
(* bytes of a source value.  CompareItem is compare_record on the two;     *)
(* AssignItem is the assignment  r1[:] = r2.  The assignment is taken for  *)
(* the pairs whose conversion Assign computes.                             *)
(***************************************************************************)
ByteVals == {0, 127, 128, 255}

(* the formats "<e><repr>", with the size 2 for a String *)
FormatOf(e, t) == <<e>> \o Descr(t).repr \o (IF t = Item_STRING THEN <<"2">> ELSE << >>)

(* the source byte strings drawn for a type: for an integer type every     *)
(* string with its first and last byte in ByteVals, the bytes between      *)
(* them, of a 4-byte integer, being 0 and 255                              *)
SourceData(t) ==
  IF IsInteger(t)
    THEN {s \in [1 .. Descr(t).size -> ByteVals] :
            Descr(t).size = 4 => s[2] = 0 /\ s[3] = 255}
    ELSE {[k \in 1 .. (IF t = Item_STRING THEN 2 ELSE Descr(t).size) |-> 64 + k]}

InitCast ==
  /\ hostLittle \in BOOLEAN
  /\ longBits \in {32, 64}
  /\ dimens = << >>
  /\ items = << >>
  /\ buffers = << >>
  /\ views = << >>
  /\ refs = << >>
  /\ res = [op |-> "import", this |-> 0, key |-> PyNULL, val |-> PyNULL,
            rc |-> 0, err |-> "", obj |-> PyNULL, cmp |-> NoCompare, calls |-> 0]

(* the two calls of record.fromstring *)
FromString ==
  /\ res.op = "import"
  /\ \E dst \in Types, src \in Types, e1 \in Endians, e2 \in Endians :
       \E data \in SourceData(src) :
         \E ub \in Undefined :
         \E r1 \in {record_fromstring(Zeros(IF dst = Item_STRING THEN 2 ELSE Descr(dst).size),
                                      1, FormatOf(e1, dst), ub)},
            r2 \in {record_fromstring(data, 1, FormatOf(e2, src), ub)} :
           /\ r1.rc = 0
           /\ r2.rc = 0
           /\ dimens' = <<r1.dimens[1], r2.dimens[1]>>
           /\ items' = <<r1.items[1], r2.items[1]>>
           /\ buffers' = <<r1.buffers[1], r2.buffers[1]>>
           /\ views' = <<r1.views[1], new_record(2, 2, r2.views[1].endn, 0, 2)>>
           /\ refs' = Counted(<< >>, buffers', views', 1, TRUE)
           /\ res' = [op |-> "fromstring", this |-> 0, key |-> PyNULL, val |-> PyNULL,
                      rc |-> 0, err |-> "", obj |-> PyRecord(2), cmp |-> NoCompare,
                      calls |-> 0]
  /\ UNCHANGED <<hostLittle, longBits>>

DstType == items[views[1].item][1].type
SrcType == items[views[2].item][1].type

CompareItem ==
  /\ res.op = "fromstring"
  /\ LET c == compare_record(dimens[1], items[1], dimens[2], items[2])
     IN  res' = [res EXCEPT !.op = "compare", !.rc = IF c.ok THEN 1 ELSE 0, !.err = c.err,
                            !.cmp = Compared(c, dimens[1], items[1], dimens[2], items[2]),
                            !.calls = 1]
  /\ UNCHANGED <<hostLittle, longBits, dimens, items, buffers, views, refs>>

AssignItem ==
  /\ res.op = "fromstring"
  /\ CanCall
  /\ CastEntry(DstType, SrcType) => Modelled(DstType, SrcType)
  /\ \E r \in {record_setseqslice(1, 0, 2147483647, PyRecord(2))} :
       Return(r, "setseqslice", 1, PySlice(PyInt(0), PyInt(2147483647), None), PyRecord(2))

NextCast ==
  \/ FromString
  \/ CompareItem
  \/ AssignItem

SpecCast == InitCast /\ [][NextCast]_vars

(***************************************************************************)
(*                   Properties of the cast of one item                    *)
(***************************************************************************)
IsText(t) == t \in {Item_STRING, Item_CHAR8}

(* the widening hierarchy: text from text, an integer from the integers no *)
(* wider than it, a float from the floats and the integers, a complex from *)
(* every numeric type                                                      *)
Widening(dst, src) ==
  \/ IsText(dst) /\ IsText(src)
  \/ IsInteger(dst) /\ IsInteger(src) /\ Descr(src).size <= Descr(dst).size
  \/ IsFloat(dst) /\ (IsFloat(src) \/ IsInteger(src))
  \/ IsComplex(dst) /\ (IsComplex(src) \/ IsFloat(src) \/ IsInteger(src))

(* C3: the slot descr_table[dst]->cast[src] is a function exactly when     *)
(* (dst, src) is in the widening hierarchy, so that every type casts from  *)
(* itself, no integer type casts from a float or complex type and no slot  *)
(* links a text type with a numeric type; and compare_record on one item   *)
(* of type dst and one of type src succeeds exactly for those pairs.  The  *)
(* table is constant: it is read whole once the module is imported, and    *)
(* at the pair of the two Records afterwards.                              *)
C3_CastTableIsWidening ==
  /\ res.op = "import" =>
       /\ \A dst \in Types, src \in Types : CastEntry(dst, src) <=> Widening(dst, src)
       /\ \A t \in Types : CastEntry(t, t)
       /\ \A dst \in Types, src \in Types :
            IsInteger(dst) /\ (IsFloat(src) \/ IsComplex(src)) => ~CastEntry(dst, src)
       /\ \A dst \in Types, src \in Types :
            IsText(dst) # IsText(src) => ~CastEntry(dst, src)
  /\ res.op # "import" => (CastEntry(DstType, SrcType) <=> Widening(DstType, SrcType))
  /\ res.op = "compare" => (res.cmp.ok <=> Widening(DstType, SrcType))

(* compare_record has accepted an sInt32 item as the source of a Float32 *)
C3_Witness ==
  /\ res.op = "compare"
  /\ res.cmp.ok
  /\ DstType = Item_FLOAT32
  /\ SrcType = Item_SINT32

(* every value of the integer type src is a value of the integer type dst *)
Representable(dst, src) ==
  /\ IsInteger(dst)
  /\ IsInteger(src)
  /\ \/ IsSigned(dst) = IsSigned(src) /\ Descr(src).size <= Descr(dst).size
     \/ IsSigned(dst) /\ ~IsSigned(src) /\ Descr(src).size < Descr(dst).size

(* get() on the one field of Record v *)
FieldGet(v) == ItemGet(items[views[v].item][1], buffers[views[v].data], views[v].pntr)

(* C5: after the assignment of a Record of one integer item of type src    *)
(* to a Record of one integer item of type dst, every value of src being a *)
(* value of dst, under any two endian tags, the assignment has succeeded   *)
(* and get() on the destination field is the integer get() gives on the    *)
(* source field.                                                           *)
C5_IntegerCastKeepsValue ==
  (res.op = "setseqslice" /\ Representable(DstType, SrcType))
    => /\ CastEntry(DstType, SrcType)
       /\ res.rc = 0
       /\ FieldGet(1) = FieldGet(2)

(* a negative "<i16" cast into a ">i32", the two byte layouts differing *)
C5_Witness ==
  /\ res.op = "setseqslice"
  /\ res.rc = 0
  /\ DstType = Item_SINT32
  /\ SrcType = Item_SINT16
  /\ views[1].endn = BIG
  /\ views[2].endn = LIL
  /\ buffers[2] = <<127, 255>>
  /\ buffers[1] = <<255, 255, 255, 127>>
  /\ FieldGet(1) = PyInt(-129)
  /\ FieldGet(2) = PyInt(-129)

(***************************************************************************)
(*                     A freshly constructed Record                        *)
(*                                                                         *)
(* One call of record.fromstring(data, count, format), with a data string  *)
(* of every length up to MaxLen, a count of -1 (not given) or up to        *)
(* MaxCount and a format of FreshFormats; then one sequence slice or one   *)
(* mapping get with a pair of integers on the Record it returned.          *)
(***************************************************************************)
MaxLen == 13
MaxCount == 3
MaxKey == 3

FreshFormats ==
  {<<"s", "0">>,
   <<"s", "2">>,
   <<"s", "1", ",", "i", "1", "6">>,
   <<"s", "2", ",", "s", "1", ",", "s", "3">>,
   <<">", "i", "1", "6", ",", "I", "8", ",", "c", "8">>}

BytesOf(n) == [k \in 1 .. n |-> 64 + k]

FromBytes ==
  /\ res.op = "import"
  /\ \E n \in 0 .. MaxLen, count \in -1 .. MaxCount, format \in FreshFormats,
        ub \in Undefined :
       \E r \in {record_fromstring(BytesOf(n), count, format, ub)} :
         /\ dimens' = r.dimens
         /\ items' = r.items
         /\ buffers' = r.buffers
         /\ views' = r.views
         /\ refs' = Counted(<< >>, r.buffers, r.views, 1, TRUE)
         /\ res' = [op |-> "fromstring", this |-> 0,
                    key |-> PyTuple(<<PyInt(count), PyString(format)>>),
                    val |-> PyString(BytesOf(n)), rc |-> r.rc, err |-> r.err,
                    obj |-> r.obj, cmp |-> r.cmp, calls |-> 0]
  /\ UNCHANGED <<hostLittle, longBits>>

(* view[a:b] on the Record just constructed *)
SliceFresh ==
  /\ res.op = "fromstring"
  /\ res.rc = 0
  /\ CanCall
  /\ \E a \in 0 .. MaxKey, b \in 0 .. MaxKey :
       \E r \in {record_getseqslice(1, a, b)} :
         Return(r, "getseqslice", 1, PySlice(PyInt(a), PyInt(b), Py_None), PyNULL)

(* view[i, j] on the Record just constructed *)
IndexFresh ==
  /\ res.op = "fromstring"
  /\ res.rc = 0
  /\ CanCall
  /\ \E i \in 0 .. MaxKey, j \in 0 .. MaxKey :
       \E r \in {record_getmapitem(1, PyTuple(<<PyInt(i), PyInt(j)>>))} :
         Return(r, "getmapitem", 1, PyTuple(<<PyInt(i), PyInt(j)>>), PyNULL)

(* the plain values assigned: a string, an int, the tuples of up to        *)
(* MaxKey of them, and the lists of up to MaxCount + 1 times one tuple     *)
Seven == PyInt(7)
FreshTuples == {PyTuple(e) : e \in SeqsOf({Hi, Seven}, MaxKey)}
MixedRows == PyList(<<PyTuple(<<Hi, Hi, Hi>>), PyTuple(<<Hi, Seven, Hi>>)>>)
FreshValues ==
  {Hi, Seven, MixedRows} \cup FreshTuples
    \cup {PyList([j \in 1 .. n |-> t]) : n \in 1 .. MaxCount + 1, t \in FreshTuples}

(* view[0] = value and view[:] = value on the Record just constructed *)
AssignFresh ==
  /\ res.op = "fromstring"
  /\ res.rc = 0
  /\ CanCall
  /\ \E key \in {PyInt(0), Full}, obj \in FreshValues :
       \E r \in {record_setmapitem(1, key, obj)} :
         Return(r, "setmapitem", 1, key, obj)

NextFresh ==
  \/ FromBytes
  \/ SliceFresh
  \/ IndexFresh
  \/ AssignFresh

SpecFresh == InitCast /\ [][NextFresh]_vars

(***************************************************************************)
(*                Properties of a freshly constructed Record               *)
(***************************************************************************)
(* the bytes of field j of record i of the first Record's buffer, the      *)
(* fields being laid out one after another in records of equal size        *)
RECURSIVE SizesBefore(_, _)
SizesBefore(item, j) == IF j = 0 THEN 0 ELSE item[j].size + SizesBefore(item, j - 1)
FieldBytes(i, j) ==
  LET item == items[views[1].item]
      at == i * SizesBefore(item, item[0].leng) + SizesBefore(item, j)
  IN  [k \in 1 .. item[j + 1].size |-> buffers[views[1].data][at + k]]

(* the Python object that holds the bytes bs of an item of type t stored   *)
(* with the endian tag endn: a string, or the integer the bytes denote     *)
ValueOf(t, endn, bs) ==
  IF IsText(t) THEN PyString(bs)
  ELSE PyInt_FromLong(IF endn \in {BIG, NET} \/ (endn = NAT /\ ~hostLittle)
                        THEN Reverse(bs) ELSE bs,
                      IsSigned(t))

(* C12: on a freshly constructed Record of shape (m, n), view[a:b] with    *)
(* 0 <= a <= b <= m is a Record of shape (b-a, n), and view[i, j] with     *)
(* 0 <= i < m and 0 <= j < n is the value of field j of record i, a        *)
(* scalar object and not a Record.                                         *)
C12_SliceAndIndexOfFresh ==
  /\ (res.op = "getseqslice"
        /\ AsInt(res.key.start) <= AsInt(res.key.stop)
        /\ AsInt(res.key.stop) <= record_getattr_shape(1)[1])
       => /\ res.rc = 0
          /\ res.obj.k = "record"
          /\ record_getattr_shape(res.obj.v)
               = <<AsInt(res.key.stop) - AsInt(res.key.start), record_getattr_shape(1)[2]>>
  /\ (res.op = "getmapitem"
        /\ AsInt(res.key.elems[1]) < record_getattr_shape(1)[1]
        /\ AsInt(res.key.elems[2]) < record_getattr_shape(1)[2])
       => /\ res.rc = 0
          /\ res.obj.k \in {"str", "int"}
          /\ res.obj = ValueOf(items[views[1].item][AsInt(res.key.elems[2]) + 1].type,
                               views[1].endn,
                               FieldBytes(AsInt(res.key.elems[1]), AsInt(res.key.elems[2])))

(* view[1:3] of a Record of shape (3, 3) has shape (2, 3) *)
C12_Witness ==
  /\ res.op = "getseqslice"
  /\ record_getattr_shape(1) = <<3, 3>>
  /\ res.key = PySlice(PyInt(1), PyInt(3), Py_None)
  /\ res.obj.k = "record"
  /\ record_getattr_shape(res.obj.v) = <<2, 3>>

(***************************************************************************)
(*                   A Record constructed with a format                    *)
(*                                                                         *)
(* One call of record.fromstring(data, 1, format) with a format made of an *)
(* optional endian code and up to MaxFields of FieldSpecs separated by     *)
(* commas (or one of LongFormats), over a data string long enough for one  *)
(* record; then a mapping get that slices the item dimension, a copy, and  *)
(* a get of the format attribute.                                          *)
(***************************************************************************)
MaxFields == 2

(* the type codes but "s", the String code with a width, and fieldspecs    *)
(* that are no type code                                                   *)
Codes == {Descr(t).repr : t \in Types \ {Item_STRING}}
Widths == {<<"s", "0">>, <<"s", "2">>, <<"s", "1", "0">>}
FieldSpecs ==
  Codes \cup Widths
    \cup {<<"s">>, <<"i", "3">>, <<"i">>, <<"x">>, <<"i", "3", "2", "x">>,
          <<"i", "3", "2", " ", "x">>, <<"s", "2", "x">>, <<" ", "i", "1", "6">>, << >>}

(* the fieldspecs fs[j], fs[j+1], ... separated by commas *)
RECURSIVE JoinSpecs(_, _)
JoinSpecs(fs, j) ==
  IF j > Len(fs) THEN << >>
  ELSE fs[j] \o (IF j < Len(fs) THEN <<",">> ELSE << >>) \o JoinSpecs(fs, j + 1)

LongFormats ==
  {<<"<", "i", "1", "6", ",", "s", "2", ",", "f", "6", "4">>,
   <<">", "s", "1", "0", ",", "I", "8", ",", "s", "2">>,
   <<"i", "3", "2", ",", "s", ",", "c", "8">>}

Formats ==
  {e \o JoinSpecs(fs, 1) : e \in {<< >>} \cup {<<c>> : c \in Endians},
                           fs \in SeqsOf(FieldSpecs, MaxFields)}
    \cup LongFormats

FromFormat ==
  /\ res.op = "import"
  /\ \E format \in Formats, ub \in Undefined :
       \E r \in {record_fromstring(Zeros(Descr(Item_COMPLEX64).size * (MaxFields + 1)),
                                    1, format, ub)} :
         /\ dimens' = r.dimens
         /\ items' = r.items
         /\ buffers' = r.buffers
         /\ views' = r.views
         /\ refs' = Counted(<< >>, r.buffers, r.views, 1, TRUE)
         /\ res' = [op |-> "fromstring", this |-> 0, key |-> PyString(format),
                    val |-> PyInt(1), rc |-> r.rc, err |-> r.err,
                    obj |-> r.obj, cmp |-> r.cmp, calls |-> 0]
  /\ UNCHANGED <<hostLittle, longBits>>

(* view[:, a:b] on the Record just constructed *)
SliceItems ==
  /\ res.op = "fromstring"
  /\ res.rc = 0
  /\ CanCall
  /\ \E a \in 0 .. MaxFields, b \in 0 .. MaxFields + 1 :
       \E key \in {PyTuple(<<PySlice(Py_None, Py_None, Py_None),
                             PySlice(PyInt(a), PyInt(b), Py_None)>>)} :
         \E r \in {record_getmapitem(1, key)} : Return(r, "getmapitem", 1, key, PyNULL)

(* view.copy() and view.copy(endian) on the newest Record *)
CopyFormatted ==
  /\ res.op \in {"fromstring", "getmapitem"}
  /\ res.rc = 0
  /\ CanCall
  /\ \E endn \in {"", BIG} :
       \E r \in {record_copy(Len(views), endn)} :
         Return(r, "copy", Len(views), PyNULL, PyString(<<endn>>))

(* view.format on the newest Record *)
GetFormat ==
  /\ res.op \in {"fromstring", "getmapitem", "copy"}
  /\ res.rc = 0
  /\ CanCall
  /\ \E r \in {record_getattr_format(Len(views))} :
       Return(r, "getattr", Len(views), PyString(<<"f", "o", "r", "m", "a", "t">>), PyNULL)

NextFormat ==
  \/ FromFormat
  \/ SliceItems
  \/ CopyFormatted
  \/ GetFormat

SpecFormat == InitCast /\ [][NextFormat]_vars

(***************************************************************************)
(*                  A Record constructed from a sequence                   *)
(*                                                                         *)
(* One call of record.record(data, format): data is a tuple of up to       *)
(* MaxItems of NewValues, a list of up to MaxRows such tuples, a list of   *)
(* two lists of one tuple, an empty tuple, an empty list or an int; the    *)
(* format is not given, or it is FormatA and the data holds in each        *)
(* position only objects that the set function of its item is a case for.  *)
(***************************************************************************)
MaxItems == 2
MaxRows == 2

Float2_5 == <<0, 0, 0, 0, 0, 0, 4, 64>>
Float4_5 == <<0, 0, 0, 0, 0, 0, 18, 64>>

NewValues ==
  {PyInt(1), PyInt(3), PyFloat(Float2_5), PyFloat(Float4_5),
   PyComplex(Float2_5, Float4_5),
   PyString(<<97, 98>>), PyString(<<99>>), PyString(<< >>)}

NewTuples == {PyTuple(e) : e \in SeqsOf(NewValues, MaxItems)}

NewData ==
  NewTuples
    \cup {PyList(e) : e \in SeqsOf(NewTuples, MaxRows)}
    \cup {PyList(<<PyList(<<t>>), PyList(<<t>>)>>) : t \in NewTuples}
    \cup {PyTuple(<< >>), PyList(<< >>), PyInt(1)}

FormatA == <<"i", "3", "2", ",", "f", "6", "4">>
DataA ==
  PyList(<<PyTuple(<<PyInt(1), PyFloat(Float2_5)>>), PyTuple(<<PyInt(3), PyFloat(Float4_5)>>)>>)

FormatB == <<"s", "2", ",", "i", "3", "2">>

(* the objects sInt32_set and Float64_set are cases for, by position *)
FitsA(t) ==
  \A j \in 1 .. Len(t.elems) :
    t.elems[j].k \in (IF j = 1 THEN {"int", "str"} ELSE {"float", "str"})

(* String_set fails for every object that is no string *)
FitsB(t) == \A j \in 2 .. Len(t.elems) : t.elems[j].k \in {"int", "str"}

RECURSIVE DataFits(_, _)
DataFits(data, format) ==
  CASE data.k = "tuple" -> IF format = FormatA THEN FitsA(data) ELSE FitsB(data)
    [] data.k = "list" ->
         \A j \in 1 .. Len(data.elems) : DataFits(data.elems[j], format)
    [] OTHER -> TRUE

(* the state after record.record(data, format) returned r *)
Constructed(r, data, format) ==
  /\ dimens' = r.dimens
  /\ items' = r.items
  /\ buffers' = r.buffers
  /\ views' = r.views
  /\ refs' = Counted(<< >>, r.buffers, r.views, 1, FALSE)
  /\ res' = [op |-> "new", this |-> 0, key |-> format, val |-> data, rc |-> r.rc,
             err |-> r.err, obj |-> r.obj, cmp |-> r.cmp, calls |-> 0, mem |-> r.mem]
  /\ UNCHANGED <<hostLittle, longBits>>

New ==
  /\ res.op = "import"
  /\ \E data \in NewData, format \in {<< >>, FormatA, FormatB},
        ub \in {"null", "crash", "proceed"} :
       /\ format # << >> => DataFits(data, format)
       /\ \E r \in {record_new(data, format # << >>, format, ub)} :
            Constructed(r, data, IF format # << >> THEN PyString(format) ELSE Py_None)

(* get_array_shape on its own: the shape list it leaves for data *)
Infer ==
  /\ res.op = "import"
  /\ \E data \in NewData :
       \E r \in {get_array_shape(1, data, << >>)} :
         res' = [op |-> "shape", this |-> 0, key |-> PyNULL, val |-> data, rc |-> r.rc,
                 err |-> "", obj |-> PyList(r.shape), cmp |-> NoCompare, calls |-> 0]
  /\ UNCHANGED <<hostLittle, longBits, dimens, items, buffers, views, refs>>

NextNew ==
  \/ New
  \/ Infer

SpecNew == InitCast /\ [][NextNew]_vars

(***************************************************************************)
(*             Properties of a Record constructed from a sequence          *)
(***************************************************************************)
(* C13: record.record([(1, 2.5), (3, 4.5)], "i32,f64") succeeds and the    *)
(* shape of the Record it returns is (2,).                                 *)
C13_FromSequenceShape ==
  (res.op = "new" /\ res.val = DataA /\ res.key = PyString(FormatA))
    => /\ res.rc = 0
       /\ record_getattr_shape(1) = <<2>>

(***************************************************************************)
(*                  Properties of formats and Item arrays                  *)
(***************************************************************************)
(* C14: in every Item array, made from a format string or cloned from      *)
(* another (over a sliced item dimension too), the offset of item k is the *)
(* sum of the sizes of the items before it (0 for the first) and the       *)
(* record size is the sum of the sizes of all items.                       *)
C14_NoPadding ==
  \A p \in DOMAIN items :
    /\ items[p][0].size = SizesBefore(items[p], items[p][0].leng)
    /\ \A k \in 1 .. items[p][0].leng : items[p][k].leng = SizesBefore(items[p], k - 1)

(* a copy of view[:, 1:3] of a Record of three items, the first of which   *)
(* has 2 bytes                                                             *)
C14_Witness ==
  /\ res.op = "copy"
  /\ res.rc = 0
  /\ Len(views) = 3
  /\ items[views[1].item][0].leng = 3
  /\ items[views[1].item][2].leng = 2
  /\ dimens[views[2].dimn][1].start = 1
  /\ items[views[3].item][0].leng = 2
  /\ items[views[3].item][1].leng = 0

(* the fieldspecs of a format string: what lies between the commas of the  *)
(* string after its endian code, without the spaces around it              *)
RECURSIVE SplitAt(_, _, _)
SplitAt(b, i, cur) ==
  IF i > Len(b) THEN <<cur>>
  ELSE IF b[i] = "," THEN <<cur>> \o SplitAt(b, i + 1, << >>)
  ELSE SplitAt(b, i + 1, Append(cur, b[i]))

RECURSIVE Strip(_)
Strip(f) ==
  IF f # << >> /\ f[1] = " " THEN Strip(Tail(f))
  ELSE IF f # << >> /\ f[Len(f)] = " " THEN Strip(SubSeq(f, 1, Len(f) - 1))
  ELSE f

FieldsOf(f) ==
  LET b == SplitAt(f, format_endian(f, skip_space(f, 1)).pos, << >>)
  IN  [k \in 1 .. Len(b) |-> Strip(b[k])]

(* a type code, followed by a decimal width if and only if it is "s" *)
IsExact(f) ==
  \/ f \in Codes
  \/ Len(f) >= 2 /\ f[1] = "s" /\ \A i \in 2 .. Len(f) : IsDigit(f[i])

(* C15: record.fromstring fails for every format that holds the String     *)
(* code "s" without a width; no Item array with such an item is made.      *)
C15_StringNeedsWidth ==
  (res.op = "fromstring" /\ \E k \in DOMAIN FieldsOf(res.key.s) : FieldsOf(res.key.s)[k] = <<"s">>)
    => res.rc # 0

(* C16: record.fromstring fails for every format that holds a fieldspec    *)
(* which is not exactly a type code (with a decimal width for "s" only):   *)
(* an unknown or truncated code, a code followed by other characters, an   *)
(* empty fieldspec, the empty string.                                      *)
C16_MalformedRejected ==
  (res.op = "fromstring" /\ \E k \in DOMAIN FieldsOf(res.key.s) : ~IsExact(FieldsOf(res.key.s)[k]))
    => res.rc # 0

(* the format strings made of one endian code and type codes separated by  *)
(* single commas, with a decimal width on "s" only                         *)
CanonicalFormats ==
  {<<e>> \o JoinSpecs(fs, 1) : e \in Endians, fs \in SeqsOf(Codes \cup Widths, MaxFields)}
    \cup {f \in LongFormats : f[1] \in Endians /\ \A k \in DOMAIN FieldsOf(f) : IsExact(FieldsOf(f)[k])}

(* C17: record.fromstring accepts every canonical format string, and the   *)
(* format attribute of the Record it returns is that string, character for *)
(* character.                                                              *)
C17_FormatRoundTrip ==
  /\ [](res.op = "fromstring" /\ res.key.s \in CanonicalFormats => res.rc = 0)
  /\ [][(res.op = "fromstring" /\ res.key.s \in CanonicalFormats /\ res'.op = "getattr")
          => res'.obj = res.key]_vars

(* the format attribute of a Record made with "<i16,s2,f64" *)
C17_Witness ==
  /\ res.op = "getattr"
  /\ res.this = 1
  /\ Len(views) = 1
  /\ res.obj = PyString(<<"<", "i", "1", "6", ",", "s", "2", ",", "f", "6", "4">>)

(***************************************************************************)
(*                     Properties of record.fromstring                     *)
(***************************************************************************)
(* the record size of a format string *)
RecordSize(format) ==
  item_FromFormat(NAT, format, format_endian(format, skip_space(format, 1)).pos).item[0].size

(* what record.fromstring(data, count, format) has to do for a string of n *)
(* bytes and a record size of size                                         *)
FromStringAsSpecified(n, count, size) ==
  IF count < 0
    THEN IF \E k \in 0 .. n : k * size = n
           THEN /\ res.rc = 0
                /\ record_getattr_shape(1)[1] * size = n
           ELSE /\ res.rc = -1
                /\ res.err = "string size not multiple of record size"
    ELSE /\ res.rc = 0 <=> n >= count * size
         /\ res.rc = 0 => record_getattr_shape(1)[1] = count
         /\ res.rc # 0 => res.rc = -1 /\ res.err # ""

(* C18: record.fromstring without a count returns a Record of as many      *)
(* records as the string holds when its size is a multiple of the record   *)
(* size and fails with ValueError otherwise; with a count it succeeds if   *)
(* and only if the string has count records or more; for every record      *)
(* size; and a call that fails leaves no Record.                           *)
C18_FromStringCounts ==
  res.op = "fromstring" /\ res.key.k = "tuple"
    => /\ FromStringAsSpecified(Len(res.val.s), AsInt(res.key.elems[1]),
                                RecordSize(res.key.elems[2].s))
       /\ res.rc # 0 => views = << >>

(***************************************************************************)
(*                 Properties of the set of a plain value                  *)
(***************************************************************************)
(* C19: view[0] = value fails when value is not a tuple of as many objects *)
(* as the record has items, and view[:] = value fails when value is not a  *)
(* list of as many objects as the Record has records.                      *)
C19_ExactArity ==
  /\ (res.op = "setmapitem" /\ res.key = PyInt(0)
        /\ (res.val.k # "tuple" \/ Len(res.val.elems) # record_getattr_shape(1)[2]))
       => res.rc = -1
  /\ (res.op = "setmapitem" /\ res.key = Full
        /\ (res.val.k # "list" \/ Len(res.val.elems) # record_getattr_shape(1)[1]))
       => res.rc = -1

(***************************************************************************)
(*                    Properties of the inferred types                     *)
(***************************************************************************)
(* the objects at position j of the tuples of a list *)
Column(data, j) == {data.elems[i].elems[j] : i \in 1 .. Len(data.elems)}

(* the greatest of a non-empty set of numbers *)
Widest(S) == CHOOSE n \in S : \A m \in S : m <= n

(* the type of a position by the precedence Complex64 > Float64 > SInt32 > *)
(* String; a String of n bytes is -n                                       *)
Promoted(col) ==
  IF \E ob \in col : ob.k = "complex" THEN Item_COMPLEX64
  ELSE IF \E ob \in col : ob.k = "float" THEN Item_FLOAT64
  ELSE IF \E ob \in col : ob.k = "int" THEN Item_SINT32
  ELSE -Widest({Len(ob.s) : ob \in col})

(* C20: for a list of tuples, the type found for each position is the one  *)
(* of highest precedence among the objects in that position (Complex64 >   *)
(* Float64 > SInt32 > String), whatever their order: a number and a string *)
(* give the numeric type, strings alone the String of the widest one.      *)
C20_InferredByPrecedence ==
  (res.op = "shape" /\ res.rc = 0 /\ res.val.k = "list" /\ Len(res.obj.elems) = 2)
    => \A j \in 1 .. Len(res.obj.elems[2].elems) :
         AsInt(res.obj.elems[2].elems[j]) = Promoted(Column(res.val, j))

(***************************************************************************)
(*                 Properties of the structures allocated                  *)
(***************************************************************************)
(* how many times x occurs in the sequence q *)
Times(x, q) == Cardinality({n \in DOMAIN q : q[n] = x})

(* C21: when record.record fails, every structure it allocated was         *)
(* released exactly once, and no Record is left.                           *)
C21_FailureReleasesOnce ==
  (res.op = "new" /\ res.rc = -1)
    => /\ \A x \in res.mem.made : Times(x, res.mem.freed) = 1
       /\ views = << >>

(***************************************************************************)
(* The life of a data buffer: Records are made over it, derived from one   *)
(* another, copied and destroyed, and the caller lets go of the string it  *)
(* passed in.                                                              *)
(***************************************************************************)
(* a destroyed Record: its struct is freed, nothing refers to it *)
Dead == [endn |-> "", dimn |-> 0, item |-> 0, pntr |-> 0, data |-> 0]
Live == {v \in DOMAIN views : views[v] # Dead}

(* string_dealloc: a string whose count reached zero is freed *)
Collected(rf, bs, b) ==
  IF rf[b].cnt = 0
    THEN [refs |-> PyMem_Free(rf, b), buffers |-> PyMem_Free(bs, b)]
    ELSE [refs |-> rf, buffers |-> bs]

(* record_dealloc: release the buffer, free the Dimen and Item arrays and  *)
(* the object                                                              *)
record_dealloc(this) ==
  LET t == views[this]
      c == Collected([refs EXCEPT ![t.data] = Py_DECREF(@)], buffers, t.data)
  IN  [dimens |-> PyMem_Free(dimens, t.dimn), items |-> PyMem_Free(items, t.item),
       buffers |-> c.buffers, refs |-> c.refs,
       views |-> [views EXCEPT ![this] = Dead]]

(* record.fromstring(Data, Format) *)
Build ==
  /\ res.op = "import"
  /\ longBits = 64
  /\ \E ub \in Undefined : \E r \in {record_fromstring(Data, -1, Format, ub)} :
       /\ r.rc = 0
       /\ dimens' = r.dimens
       /\ items' = r.items
       /\ buffers' = r.buffers
       /\ views' = r.views
       /\ refs' = Counted(<< >>, r.buffers, r.views, 1, TRUE)
       /\ res' = [op |-> "fromstring", this |-> 0, key |-> PyNULL, val |-> PyString(Data),
                  rc |-> r.rc, err |-> r.err, obj |-> r.obj, cmp |-> r.cmp, calls |-> 0]
  /\ UNCHANGED <<hostLittle, longBits>>

(* record.record(DataA, FormatA) *)
BuildNew ==
  /\ res.op = "import"
  /\ \E ub \in {"null", "crash", "proceed"} :
       \E r \in {record_new(DataA, TRUE, FormatA, ub)} :
         /\ r.rc = 0
         /\ Constructed(r, DataA, PyString(FormatA))

(* the Records derived from the one constructed *)
MaxDerived == 2
CanDerive == res.calls < MaxDerived

(* view[key] on a live Record *)
Derive ==
  /\ CanDerive
  /\ \E this \in Live, key \in MapKeys :
       \E r \in {record_getmapitem(this, key)} :
         Return(r, "getmapitem", this, key, PyNULL)

(* view[a:b] on a live Record *)
DeriveSlice ==
  /\ CanDerive
  /\ \E this \in Live, s \in Slices :
       \E r \in {record_getseqslice(this, s[1], s[2])} :
         Return(r, "getseqslice", this, PySlice(PyInt(s[1]), PyInt(s[2]), None), PyNULL)

(* view.copy(endn) on a live Record *)
Duplicate ==
  /\ CanDerive
  /\ \E this \in Live, endn \in CopyEndians :
       \E r \in {record_copy(this, endn)} :
         Return(r, "copy", this, PyNULL, PyString(<<endn>>))

(* the last reference to a Record goes away *)
Destroy ==
  /\ \E this \in Live :
       \E r \in {record_dealloc(this)} :
         /\ dimens' = r.dimens
         /\ items' = r.items
         /\ buffers' = r.buffers
         /\ views' = r.views
         /\ refs' = r.refs
         /\ res' = [res EXCEPT !.op = "dealloc", !.this = this, !.obj = PyNULL]
  /\ UNCHANGED <<hostLittle, longBits>>

(* a holder outside the Records lets go of the string *)
Release ==
  /\ \E b \in DOMAIN refs :
       /\ refs[b].ext > 0
       /\ \E c \in {Collected([refs EXCEPT ![b] = Py_DECREF_own(@)], buffers, b)} :
            /\ refs' = c.refs
            /\ buffers' = c.buffers
       /\ res' = [res EXCEPT !.op = "release", !.this = b, !.obj = PyNULL]
  /\ UNCHANGED <<hostLittle, longBits, dimens, items, views>>

NextRefs ==
  \/ Build
  \/ BuildNew
  \/ Derive
  \/ DeriveSlice
  \/ Duplicate
  \/ Destroy
  \/ Release

SpecRefs == InitCast /\ [][NextRefs]_vars

(* the Records that hold the buffer b *)
Holders(b) == {v \in Live : views[v].data = b}

(* C22: the reference count of every buffer is the number of live Records  *)
(* that share it plus the holders outside; a buffer is allocated exactly   *)
(* while its count is positive, and every live Record's buffer is          *)
(* allocated.                                                              *)
C22_CountIsHolders ==
  /\ DOMAIN refs = DOMAIN buffers
  /\ \A b \in DOMAIN refs :
       /\ refs[b].cnt = Cardinality(Holders(b)) + refs[b].ext
       /\ refs[b].cnt > 0
  /\ \A v \in Live : views[v].data \in DOMAIN buffers

(* a derived Record has outlived the Record it was taken from and the      *)
(* caller's reference, and is the buffer's only holder                     *)
C22_Witness ==
  /\ 1 \in DOMAIN views
  /\ views[1] = Dead
  /\ \E v \in Live :
       /\ views[v].data = 1
       /\ refs[1] = [cnt |-> 1, ext |-> 0]
       /\ Holders(1) = {v}

(***************************************************************************)
(* The writes of view[key] = value on the Record made by fromstring, in    *)
(* the order of the traversal: <<record, item, object>>.                   *)
(***************************************************************************)
RowTargets(key, obj) ==
  IF obj.k = "list"
    THEN [j \in 1 .. (IF key = PyInt(0) THEN 1 ELSE record_getattr_shape(1)[1])
            |-> <<j - 1, GetItem(obj, j - 1)>>]
    ELSE << <<0, obj>> >>

ItemTargets(row) ==
  IF row[2].k = "tuple"
    THEN [i \in 1 .. record_getattr_shape(1)[2] |-> <<row[1], i - 1, GetItem(row[2], i - 1)>>]
    ELSE << <<row[1], 0, row[2]>> >>

RECURSIVE Flat(_, _)
Flat(rows, x) == IF x > Len(rows) THEN << >> ELSE ItemTargets(rows[x]) \o Flat(rows, x + 1)

Targets(key, obj) == Flat(RowTargets(key, obj), 1)

(* where the record w[1] starts and the bytes of its item w[2] in buf *)
RecordAt(w) == views[1].pntr + dimens[views[1].dimn][2].size * w[1]
ItemOf(w) == items[views[1].item][w[2] + 1]
ItemBytes(buf, w) == Peek(buf, RecordAt(w) + ItemOf(w).leng, ItemOf(w).size)

(* the bytes the Record was made over *)
Before == BytesOf(Len(buffers[1]))

(* the write w on its own: its result code and the bytes it leaves *)
Alone(w) == ItemSet(ItemOf(w), Before, RecordAt(w), w[3])

(* the writes before x are kept, x itself fails, nothing after x is written *)
StoppedAt(T, x) ==
  /\ Alone(T[x]).rc = -1
  /\ \A y \in 1 .. (x - 1) :
       /\ Alone(T[y]).rc = 0
       /\ ItemBytes(buffers[1], T[y]) = ItemBytes(Alone(T[y]).buf, T[y])
  /\ \A y \in x .. Len(T) : ItemBytes(buffers[1], T[y]) = ItemBytes(Before, T[y])

(* C23: when view[key] = value fails at one write (the key was accepted:   *)
(* the failure carries no message of the handler), every write before it   *)
(* in the traversal is kept, no item after it is written, and the call     *)
(* reports the failure.                                                    *)
C23_SetStopsAtFailure ==
  (res.op = "setmapitem" /\ res.val.k \in {"list", "tuple"})
    => LET T == Targets(res.key, res.val)
       IN  /\ (res.rc = -1 /\ res.err = "") => \E x \in 1 .. Len(T) : StoppedAt(T, x)
           /\ \A x \in 1 .. Len(T) :
                (Alone(T[x]).rc = -1 /\ \A y \in 1 .. (x - 1) : Alone(T[y]).rc = 0)
                  => res.rc = -1

(* view[:] = [(Hi, Hi, Hi), (Hi, 7, Hi)] over two records of three strings: *)
(* the first record and the first item of the second are written           *)
C23_Witness ==
  /\ res.op = "setmapitem"
  /\ res.key = Full
  /\ res.val = MixedRows
  /\ res.rc = -1
  /\ LET T == Targets(res.key, res.val)
     IN  /\ Len(T) = 6
         /\ StoppedAt(T, 5)
         /\ buffers[1] # Before

(* the empty string, which matches none of the types get_array_shape looks for *)
Empty == PyString(<< >>)

(* C24: record.record(data) with no format, data one tuple: a position     *)
(* that holds the empty string is given the type SInt32 and the            *)
(* construction succeeds.                                                  *)
C24_DefaultsToSInt32 ==
  (res.op = "new" /\ res.key = Py_None /\ res.val.k = "tuple"
     /\ \E j \in 1 .. Len(res.val.elems) : res.val.elems[j] = Empty)
    => /\ res.rc = 0
       /\ \A j \in 1 .. Len(res.val.elems) :
            res.val.elems[j] = Empty => items[views[1].item][j].type = Item_SINT32

(* the outermost expanded dimension of the Dimen array d, 0 when none is *)
Outermost(d) ==
  IF \E j \in 1 .. d[0].leng : d[j].flag # 0
    THEN CHOOSE j \in 1 .. d[0].leng :
           d[j].flag # 0 /\ \A m \in (j + 1) .. d[0].leng : d[m].flag = 0
    ELSE 0

(* the position in the buffer's dimension k that element i of the range   *)
(* of d[k] stands for                                                     *)
Element(d, k, i) == d[k].start + i * d[k].step

(* C25: view[i] with an integer i addresses element i of the range the     *)
(* view selects on its outermost expanded axis: for a view taken as        *)
(* v1[a:b] that is element a+i of v1, and for a stepped view the i-th      *)
(* element of the stepped range.                                           *)
C25_IndexComposes ==
  (res.op = "getmapitem" /\ res.rc = 0 /\ res.key.k = "int" /\ res.obj.k = "record")
    => LET v2 == dimens[views[res.this].dimn]
           w == dimens[views[res.obj.v].dimn]
           k == Outermost(v2)
       IN  k # 0 => w[k].start = Element(v2, k, AsInt(res.key))

(* the Dimen array of the Record a handler returned *)
Returned(r) == r.dimens[r.views[r.obj.v].dimn]

(* the flags, the marker of the outermost axis and the lengths of the      *)
(* expanded axes of a Dimen array                                          *)
Outline(d) ==
  [flags |-> [j \in 1 .. d[0].leng |-> d[j].flag], top |-> d[0].stop,
   shape |-> [j \in 1 .. Len(get_valid_dimens(d)) |-> dimen_length(d, get_valid_dimens(d)[j])]]

(* the two results are both failures, or the same scalar, or Records with  *)
(* the same outline                                                        *)
Agree(a, b) ==
  \/ a.rc # 0 /\ b.rc # 0
  \/ /\ a.rc = 0 /\ b.rc = 0
     /\ a.obj.k # "record" /\ a.obj = b.obj
  \/ /\ a.rc = 0 /\ b.rc = 0
     /\ a.obj.k = "record" /\ b.obj.k = "record"
     /\ Outline(Returned(a)) = Outline(Returned(b))

(* C26: on every Record and for every integer i, the sequence item i and   *)
(* the mapping item with key i both fail, or are the same scalar, or are   *)
(* Records with the same flags, outermost-axis marker and shape.           *)
C26_SeqItemIsMapItem ==
  CanCall =>
    \A this \in DOMAIN views : \A i \in Indexes :
      Agree(record_getseqitem(this, i), record_getmapitem(this, PyInt(i)))

(***************************************************************************)
(* Shape assignment with every tuple of small lengths, on the Record made  *)
(* by fromstring and on the Records derived from it.  A Record whose shape *)
(* was assigned is not used further.                                       *)
(***************************************************************************)
MaxSide == 3
Sides == {PyInt(n) : n \in 1 .. MaxSide}
AnyShapes ==
  {PyTuple(<<a, b>>) : a \in Sides, b \in Sides}
    \cup {PyTuple(<<a, b, c>>) : a \in Sides, b \in Sides, c \in Sides}

(* view[key] before any shape was assigned *)
Select ==
  /\ CanCall
  /\ res.op # "setattr"
  /\ \E this \in DOMAIN views, key \in MapKeys :
       \E r \in {record_getmapitem(this, key)} :
         Return(r, "getmapitem", this, key, PyNULL)

(* view.shape = obj *)
Reshape ==
  /\ CanCall
  /\ res.op # "setattr"
  /\ \E this \in DOMAIN views, obj \in AnyShapes :
       \E r \in {record_setattr_shape(this, obj)} :
         Return(r, "setattr", this, PyNULL, obj)

NextShape ==
  \/ Select
  \/ Reshape

SpecShape == Init /\ [][NextShape]_vars

(* the positions the Dimen array d selects in its item dimension *)
ItemAxis(d) == {d[1].start + n * d[1].step : n \in 0 .. (dimen_length(d, 1) - 1)}

(* C27: in every Record, every position its Dimen array selects in the     *)
(* item dimension is the index of an item of its Item array.               *)
C27_ItemAxisInLayout ==
  \A v \in DOMAIN views :
    \A k \in ItemAxis(dimens[views[v].dimn]) :
      k \in 0 .. (items[views[v].item][0].leng - 1)

(***************************************************************************)
(* A cast into one item: two Records of one record of two items each are   *)
(* made over strings longer than the record, one item of the source is     *)
(* selected, and it is assigned to one item of the destination.            *)
(***************************************************************************)
MaxWidth == 2
FrameItems ==
  {<<"s">> \o Decimal(n) : n \in 0 .. MaxWidth}
    \cup {<<"c", "8">>, <<"i", "8">>, <<"I", "1", "6">>}
FrameFormats == {<<e>> \o a \o <<",">> \o b : e \in {LIL, BIG}, a \in FrameItems, b \in FrameItems}

(* the strings the two Records are made over: room for the widest record *)
DstData == [k \in 1 .. 2 * (MaxWidth + 2) |-> 32 + k]
SrcData == [k \in 1 .. 2 * (MaxWidth + 2) |-> 64 + k]

MakePair ==
  /\ res.op = "import"
  /\ \E f1 \in FrameFormats, f2 \in FrameFormats :
       \E ub \in Undefined :
         \E r1 \in {record_fromstring(DstData, 1, f1, ub)},
            r2 \in {record_fromstring(SrcData, 1, f2, ub)} :
           /\ r1.rc = 0
           /\ r2.rc = 0
           /\ dimens' = <<r1.dimens[1], r2.dimens[1]>>
           /\ items' = <<r1.items[1], r2.items[1]>>
           /\ buffers' = <<r1.buffers[1], r2.buffers[1]>>
           /\ views' = <<r1.views[1], new_record(2, 2, r2.views[1].endn, 0, 2)>>
           /\ refs' = Counted(<< >>, buffers', views', 1, TRUE)
           /\ res' = [op |-> "fromstring", this |-> 0, key |-> PyString(f1),
                      val |-> PyString(f2), rc |-> 0, err |-> "", obj |-> PyRecord(2),
                      cmp |-> NoCompare, calls |-> 0]
  /\ UNCHANGED <<hostLittle, longBits>>

(* src[:, j] *)
TakeItem ==
  /\ res.op = "fromstring"
  /\ \E j \in 0 .. 1 :
       \E r \in {record_getmapitem(2, PyTuple(<<Full, PyInt(j)>>))} :
         Return(r, "getmapitem", 2, PyTuple(<<Full, PyInt(j)>>), PyNULL)

(* dst[:, i] = src[:, j] *)
CastItem ==
  /\ res.op = "getmapitem"
  /\ res.rc = 0
  /\ \E i \in 0 .. 1 :
       /\ LET dt == items[views[1].item][i + 1].type
              st == items[views[3].item][AsInt(res.key.elems[2]) + 1].type
          IN  CastEntry(dt, st) => Modelled(dt, st)
       /\ \E r \in {record_setmapitem(1, PyTuple(<<Full, PyInt(i)>>), PyRecord(3))} :
            Return(r, "setmapitem", 1, PyTuple(<<Full, PyInt(i)>>), PyRecord(3))

NextFrame ==
  \/ MakePair
  \/ TakeItem
  \/ CastItem

SpecFrame == InitCast /\ [][NextFrame]_vars

(* the item the cast was into, and the bytes of the buffer that are its own *)
CastInto == items[views[1].item][AsInt(res.key.elems[2]) + 1]
Own(i1) == (views[1].pntr + i1.leng + 1) .. (views[1].pntr + i1.leng + i1.size)

(* C28: a cast into one item of the destination changes no byte outside    *)
(* the item's offset and size.                                             *)
C28_CastFrame ==
  res.op = "setmapitem"
    => \A n \in (DOMAIN buffers[1]) \ Own(CastInto) : buffers[1][n] = DstData[n]

(***************************************************************************)
(* Copies of selections: a Record of integer and string items over         *)
(* distinct bytes, a view of it taken with a key on the records and the    *)
(* items, and the copy of the newest Record with a byte order.             *)
(***************************************************************************)
CopyFormats ==
  {<<">", "i", "1", "6", ",", "s", "2", ",", "I", "8">>,
   <<"<", "s", "1", ",", "i", "3", "2", ",", "c", "8">>}

AxisKeys ==
  {Full, Rev, PyInt(1), PySlice(PyInt(1), Py_None, Py_None),
   PySlice(Py_None, Py_None, PyInt(2)), PySlice(Py_None, Py_None, PyInt(-2))}
PickKeys == AxisKeys \cup {PyTuple(<<a, b>>) : a \in AxisKeys, b \in AxisKeys}

(* record.fromstring(bytes, 3, format) *)
MakeSource ==
  /\ res.op = "import"
  /\ \E format \in CopyFormats, ub \in Undefined :
       \E r \in {record_fromstring(BytesOf(3 * item_FromFormat(NAT, format, 2).item[0].size),
                                    3, format, ub)} :
         /\ r.rc = 0
         /\ dimens' = r.dimens
         /\ items' = r.items
         /\ buffers' = r.buffers
         /\ views' = r.views
         /\ refs' = Counted(<< >>, r.buffers, r.views, 1, TRUE)
         /\ res' = [op |-> "fromstring", this |-> 0, key |-> PyString(format),
                    val |-> PyInt(3), rc |-> r.rc, err |-> r.err,
                    obj |-> r.obj, cmp |-> r.cmp, calls |-> 0]
  /\ UNCHANGED <<hostLittle, longBits>>

(* view[key] on the newest Record *)
Pick ==
  /\ res.op \in {"fromstring", "getmapitem"}
  /\ res.rc = 0
  /\ res.obj.k = "record"
  /\ res.calls < MaxCalls - 1
  /\ \E key \in PickKeys :
       \E r \in {record_getmapitem(Len(views), key)} :
         Return(r, "getmapitem", Len(views), key, PyNULL)

(* view.copy(endn) on the newest Record *)
CopyPicked ==
  /\ res.op \in {"fromstring", "getmapitem"}
  /\ res.rc = 0
  /\ res.obj.k = "record"
  /\ CanCall
  /\ \E endn \in Endians \cup {""} :
       \E r \in {record_copy(Len(views), endn)} :
         Return(r, "copy", Len(views), PyNULL, PyString(<<endn>>))

(* view.format on the newest Record *)
FormatPicked ==
  /\ res.op \in {"fromstring", "getmapitem"}
  /\ res.rc = 0
  /\ res.obj.k = "record"
  /\ CanCall
  /\ \E r \in {record_getattr_format(Len(views))} :
       Return(r, "getattr", Len(views), PyString(<<"f", "o", "r", "m", "a", "t">>), PyNULL)

NextCopy ==
  \/ MakeSource
  \/ Pick
  \/ CopyPicked
  \/ FormatPicked

SpecCopy == InitCast /\ [][NextCopy]_vars

(* the nested value of the Record v: what get_record makes of all of it *)
Marshal(v) ==
  get_record(dimens[views[v].dimn][0].leng, dimens[views[v].dimn], items[views[v].item],
             buffers[views[v].data], views[v].pntr)

(* C29: the copy of a view with any byte order succeeds, has the shape of  *)
(* the view and the same nested value.                                     *)
C29_CopyKeepsValue ==
  res.op = "copy"
    => /\ res.rc = 0
       /\ res.obj.k = "record"
       /\ record_getattr_shape(res.obj.v) = record_getattr_shape(res.this)
       /\ Marshal(res.obj.v) = Marshal(res.this)

(* the copy, in the other byte order, of records 2 and 0 with their items  *)
(* in reverse                                                              *)
C29_Witness ==
  /\ res.op = "copy"
  /\ res.rc = 0
  /\ res.val = PyString(<<IF hostLittle THEN BIG ELSE LIL>>)
  /\ dimens[views[res.this].dimn][1].step = -1
  /\ dimens[views[res.this].dimn][2].step = -2
  /\ record_getattr_shape(res.obj.v) = <<2, 3>>
  /\ buffers[views[res.obj.v].data] # buffers[views[res.this].data]

(* the items the Record v selects, in the order of its item dimension *)
Selected(v) ==
  LET d == dimens[views[v].dimn]
      ks == LoopSeq(d[1].start, d[1].stop, d[1].step)
  IN  [j \in 1 .. Len(ks) |-> items[views[v].item][ks[j] + 1]]

(* C30: the format attribute of a view that selects n >= 1 items has n - 1 *)
(* commas, and item_FromFormat parses it back to the selected items, in    *)
(* their order, with their types and sizes.                                *)
C30_FormatOfSelection ==
  (res.op = "getattr" /\ res.rc = 0 /\ Len(Selected(res.this)) >= 1)
    => LET sel == Selected(res.this)
           p == item_FromFormat(res.obj.s[1], res.obj.s, 2)
       IN  /\ Times(",", res.obj.s) = Len(sel) - 1
           /\ p.ok
           /\ p.item[0].leng = Len(sel)
           /\ \A j \in 1 .. Len(sel) :
                p.item[j].type = sel[j].type /\ p.item[j].size = sel[j].size

=============================================================================
